---------------------------- MODULE Spec2Model ----------------------------
(***************************************************************************)
(* GreenStreamAI: the in-memory store of the streaming results             *)
(* (PathwayDataStore), the stream processor that fills it                  *)
(* (PathwayStreamProcessor) and the callers that read it.                  *)
(*                                                                         *)
(* Conventions.  A Python dict with string keys is a TLA+ record, so two   *)
(* dicts with different key sets are different values.  Scores are kept in *)
(* hundredths (risk_score 42.0 is 4200): every score the code computes     *)
(* from integer aqi, co2 and whole-degree temperatures is a whole number   *)
(* of hundredths.  datetime.now() is the logical clock `clock`, which      *)
(* advances by one at every call.  A store method runs under the store's   *)
(* lock and is split into the steps another thread could tell apart.       *)
(***************************************************************************)
EXTENDS Integers, Sequences, FiniteSets, TLC

VARIABLES
    latest_readings,   \* PathwayDataStore.latest_readings: city -> record
    alerts_buffer,     \* PathwayDataStore.alerts_buffer: list of records
    health_scores,     \* PathwayDataStore.health_scores: city -> score
    risk_scores,       \* PathwayDataStore.risk_scores: city -> score
    anomaly_history,   \* PathwayDataStore.anomaly_history: city -> list of tags
    lock,              \* PathwayDataStore.lock: the thread holding it, or Free
    clock,             \* datetime.now()
    pc,                \* thread -> position in its code
    call,              \* thread -> arguments and return position of its store call
    tick,              \* iterations of the processor's while loop started so far
    idx,               \* position of the processor's for loop in TrackedCities
    reading,           \* the processor's local `reading`
    tickStart,         \* history: the clock when the current iteration started
    batch,             \* process_pathway_results: its arguments
    wi,                \* process_pathway_results: position of its current for loop
    wcalls,            \* calls of process_pathway_results still to come
    feed,              \* the reading source: city -> the samples it yields, in turn
    horizon,           \* the number of loop iterations explored
    stopAt,            \* the loop iteration in which a stop was requested from outside, 0 if none
    sleeps,            \* history: the calls of time.sleep the processor has made
    held,              \* a caller of the store: the map it was handed, if any
    rleft,             \* the caller's store reads and changes still to come
    query,             \* the request being served: what its handler has read so far
    resp,              \* the result of the last read or request
    alertLog,          \* history: every argument of add_alert, in order of append
    anomalyLog,        \* history: city -> every tag handed to add_anomaly, in order
    writeLog,          \* history: city -> the last two update_reading calls, and their count
    pipeline_state,    \* pipeline.py: the legacy pipeline's global state
    stream,            \* generate_environmental_data: the readings it yields, in turn
    processed          \* history: the calls of process_data so far

storeVars == <<latest_readings, alerts_buffer, health_scores, risk_scores, anomaly_history>>
histVars == <<alertLog, anomalyLog, writeLog>>
legacyVars == <<pipeline_state, stream, processed>>
procVars == <<tick, idx, reading, tickStart>>
batchVars == <<batch, wi, wcalls>>
readerVars == <<held, rleft, query, resp>>
vars == <<latest_readings, alerts_buffer, health_scores, risk_scores, anomaly_history,
          lock, clock, pc, call, tick, idx, reading, tickStart, batch, wi, wcalls,
                legacyVars, feed, horizon, stopAt, sleeps, held, rleft, query, resp, alertLog, anomalyLog, writeLog>>

-----------------------------------------------------------------------------
(* Program constants *)

AlertsCapacity == 100
CO2_THRESHOLD == 600
AQI_THRESHOLD == 100
LegacyCapacity == 100
AnomalyCapacity == 50
ProcAqiCritical == 200
ProcAqiWarning == 100
ProcCo2Critical == 600
ProcCo2Warning == 500
ProcTempExtreme == 45
AQI_CRITICAL == 200
AQI_WARNING == 100
CO2_CRITICAL == 600
CO2_WARNING == 500

TrackedCities == <<"Delhi", "Mumbai", "Chennai", "Bangalore">>
Cities == {TrackedCities[i] : i \in 1..Len(TrackedCities)}

(* Bounds of the exploration *)
MaxTicks == 2
LongTicks == 151
MidTicks == 32
MaxReads == 3

\* a city no loop of the processor visits
OtherCity == "Pune"
AllCities == Cities \cup {OtherCity}

Free == "free"
Proc == "processor"
Writer == "writer"
Reader == "reader"
Threads == {Proc, Writer, Reader}

-----------------------------------------------------------------------------
(* Python dict and list helpers *)

Min(a, b) == IF a < b THEN a ELSE b
Max(a, b) == IF a > b THEN a ELSE b
Clamp(x, lo, hi) == Min(hi, Max(lo, x))

\* d[k] = v on a dict d
DictSet(d, k, v) == [x \in (DOMAIN d) \cup {k} |-> IF x = k THEN v ELSE d[x]]

\* the empty dict
EmptyDict == [x \in {} |-> 0]

\* the last n elements of s: s[-n:] for n >= 1
LastN(s, n) == IF Len(s) <= n THEN s ELSE SubSeq(s, Len(s) - n + 1, Len(s))

\* s[-limit:] for any integer limit: -0 is 0, so limit 0 is s[0:], the whole
\* list; a negative limit is a positive start index
SliceFromMinus(s, limit) ==
    IF limit = 0 THEN s
    ELSE IF limit > 0 THEN LastN(s, limit)
    ELSE IF - limit >= Len(s) THEN <<>>
    ELSE SubSeq(s, 1 - limit, Len(s))

\* [a for a in s if a.get("severity") == sev]
RECURSIVE WithSeverity(_, _)
WithSeverity(s, sev) ==
    IF s = <<>> THEN <<>>
    ELSE LET rest == WithSeverity(Tail(s), sev) IN
         IF "severity" \in DOMAIN Head(s) /\ Head(s).severity = sev
         THEN <<Head(s)>> \o rest
         ELSE rest


-----------------------------------------------------------------------------
(* The reading source.  A sample is what the source yields for one call:   *)
(* kind "ok" a full reading, kind "partial" a reading without temperature, *)
(* humidity and timestamp (the shape of OpenWeatherMapAQI.get_city_aqi),   *)
(* kind "raise" an exception out of generate_reading.                      *)

Sample(kind, aqi, co2, temperature, humidity) ==
    [kind |-> kind, aqi |-> aqi, co2 |-> co2, temperature |-> temperature,
     humidity |-> humidity]

\* EnvironmentalDataGenerator.generate_reading: the dict it returns
GenerateReading(city, s, now) ==
    IF s.kind = "partial"
    THEN [city |-> city, aqi |-> s.aqi, co2 |-> s.co2]
    ELSE [city |-> city, aqi |-> s.aqi, co2 |-> s.co2,
          temperature |-> s.temperature, humidity |-> s.humidity,
          timestamp |-> now]

\* the sample the source yields for `city` in loop iteration t
FeedAt(city, t) == feed[city][((t - 1) % Len(feed[city])) + 1]

-----------------------------------------------------------------------------
(* PathwayStreamProcessor: the static helpers *)

\* _compute_risk_score, in hundredths
ComputeRiskScore(aqi, co2, temperature) ==
    LET aqi_score40  == Clamp(8 * aqi, 0, 4000)
        co2_score40  == Clamp(10 * (co2 - 400), 0, 4000)
        temp_score20 == IF temperature > ProcTempExtreme THEN 2000 ELSE 0
    IN  aqi_score40 + co2_score40 + temp_score20

\* a variant in which the AQI decides the severity whenever it is not normal
SeverityAqiFirst(aqi, co2) ==
    IF aqi > ProcAqiCritical THEN "critical"
    ELSE IF aqi > ProcAqiWarning THEN "warning"
    ELSE IF co2 > ProcCo2Critical THEN "critical"
    ELSE IF co2 > ProcCo2Warning THEN "warning"
    ELSE "normal"

\* _classify_severity
ClassifySeverity(aqi, co2) ==
    IF aqi > ProcAqiCritical \/ co2 > ProcCo2Critical THEN "critical"
    ELSE IF aqi > ProcAqiWarning \/ co2 > ProcCo2Warning THEN "warning"
    ELSE "normal"

\* a variant that stops at the first matching condition
FirstAnomalyOnly(r) ==
    IF r.aqi > ProcAqiCritical THEN <<"high_aqi">>
    ELSE IF r.co2 > ProcCo2Critical THEN <<"high_co2">>
    ELSE IF r.temperature > ProcTempExtreme THEN <<"extreme_heat">>
    ELSE <<"normal">>

\* _get_anomaly_type: the tags it joins with ",", in order; <<"normal">> when none
GetAnomalyType(r) ==
    LET a == IF r.aqi > ProcAqiCritical THEN <<"high_aqi">> ELSE <<>>
        c == IF r.co2 > ProcCo2Critical THEN <<"high_co2">> ELSE <<>>
        h == IF r.temperature > ProcTempExtreme THEN <<"extreme_heat">> ELSE <<>>
        anomalies == a \o c \o h
    IN  IF anomalies # <<>> THEN anomalies ELSE <<"normal">>

\* the keys lines 158-168 read with reading[...]: a missing one raises KeyError
ClassifyRaises(r) == ~ ({"aqi", "co2", "temperature"} \subseteq DOMAIN r)

\* lines 158-168: the reading with the derived fields set on it
Classified(r) ==
    LET risk == ComputeRiskScore(r.aqi, r.co2, r.temperature)
        r1 == DictSet(r, "risk_score", risk)
        r2 == DictSet(r1, "health_score", 10000 - risk)
        r3 == DictSet(r2, "severity", ClassifySeverity(r.aqi, r.co2))
    IN  DictSet(r3, "anomaly_type", GetAnomalyType(r3))

\* line 173: the guard of the alert
IsAlertSeverity(sev) == sev \in {"critical", "warning"}

-----------------------------------------------------------------------------
(* PathwayDataStore: the assignments of the mutating methods *)

\* a variant that keeps the timestamp the producer put in the record
ProducerTimestampKept(data, now) ==
    IF "timestamp" \in DOMAIN data THEN data ELSE DictSet(data, "timestamp", now)

\* update_reading, line 30: {**data, "timestamp": now}
StoredRecord(data, now) == DictSet(data, "timestamp", now)

\* mutant of update_reading: the new fields are merged into the stored record
LatestMerged(latest, city, data, now) ==
    LET old == IF city \in DOMAIN latest THEN latest[city] ELSE EmptyDict
        new == StoredRecord(data, now)
    IN  DictSet(latest, city,
                [f \in (DOMAIN old) \cup (DOMAIN new) |->
                    IF f \in DOMAIN new THEN new[f] ELSE old[f]])

\* a variant that keeps the record a city already has
LatestKeptIfPresent(latest, city, data, now) ==
    IF city \in DOMAIN latest THEN latest
    ELSE DictSet(latest, city, DictSet(data, "timestamp", now))

\* update_reading, line 30: self.latest_readings[city] = {...}
LatestAfterUpdate(latest, city, data, now) ==
    DictSet(latest, city, StoredRecord(data, now))

\* update_reading, lines 36-39: a score map after the conditional store
ScoreStored(scores, city, data, key) ==
    IF key \in DOMAIN data THEN DictSet(scores, city, data[key]) ELSE scores

\* mutants of the eviction of add_alert: no eviction; pop() of the newest entry;
\* eviction as soon as the buffer is full
AlertsNeverEvicted(buf) == buf
AlertsEvictNewest(buf) ==
    IF Len(buf) > AlertsCapacity THEN SubSeq(buf, 1, Len(buf) - 1) ELSE buf
AlertsEvictAtCapacity(buf) == IF Len(buf) >= AlertsCapacity THEN Tail(buf) ELSE buf

\* add_alert, lines 45-46: pop(0) when the buffer is longer than 100
AlertsAfterEvict(buf) == IF Len(buf) > AlertsCapacity THEN Tail(buf) ELSE buf

\* mutant of the eviction of add_anomaly: eviction as soon as the list is full
HistoryEvictAtCapacity(h) == IF Len(h) >= AnomalyCapacity THEN Tail(h) ELSE h

\* add_anomaly, lines 52-53: pop(0) when the city's list is longer than 50
HistoryAfterEvict(h) == IF Len(h) > AnomalyCapacity THEN Tail(h) ELSE h

\* self.anomaly_history[city] on the defaultdict(list): a missing key reads as []
HistoryOf(hist, city) == IF city \in DOMAIN hist THEN hist[city] ELSE <<>>

NoCall == [city |-> "", data |-> EmptyDict, tag |-> <<>>, ret |-> ""]


-----------------------------------------------------------------------------
(* PathwayDataStore: the mutating methods, as steps of the calling thread t *)

Goto(t, label) == pc' = [pc EXCEPT ![t] = label]

\* `with self.lock:` entered, the arguments bound
Enter(t, city, data, tag, ret, first) ==
    /\ lock = Free
    /\ lock' = t
    /\ call' = [call EXCEPT ![t] = [city |-> city, data |-> data, tag |-> tag, ret |-> ret]]
    /\ Goto(t, first)

\* a variant in which the method returns with the lock still held
LeaveHolding(t) ==
    /\ lock' = lock
    /\ Goto(t, call[t].ret)
    /\ call' = [call EXCEPT ![t] = NoCall]

\* `with self.lock:` left, the method returns
Leave(t) ==
    /\ lock' = Free
    /\ Goto(t, call[t].ret)
    /\ call' = [call EXCEPT ![t] = NoCall]

\* one more call in the history of update_reading(city, ...)
Logged(log, data, now) ==
    [n |-> log.n + 1,
     prev |-> log.last,
     last |-> <<[data |-> data, now |-> now]>>]

NoWrites == [n |-> 0, prev |-> <<>>, last |-> <<>>]

\* update_reading, lines 30-33
UpdateLatest(t) ==
    /\ pc[t] = "ur_latest"
    /\ latest_readings' = LatestAfterUpdate(latest_readings, call[t].city,
                                            call[t].data, clock)
    /\ writeLog' = [writeLog EXCEPT ![call[t].city] = Logged(@, call[t].data, clock)]
    /\ clock' = clock + 1
    /\ Goto(t, "ur_scores")
    /\ UNCHANGED <<alerts_buffer, health_scores, risk_scores, anomaly_history, lock, call,
                   procVars, batchVars, legacyVars, feed, horizon, stopAt, sleeps, readerVars, alertLog, anomalyLog>>

\* update_reading, lines 36-39
UpdateScores(t) ==
    /\ pc[t] = "ur_scores"
    /\ health_scores' = ScoreStored(health_scores, call[t].city, call[t].data, "health_score")
    /\ risk_scores' = ScoreStored(risk_scores, call[t].city, call[t].data, "risk_score")
    /\ Leave(t)
    /\ UNCHANGED <<latest_readings, alerts_buffer, anomaly_history, clock,
                   procVars, batchVars, legacyVars, feed, horizon, stopAt, sleeps, readerVars, histVars>>

\* add_alert, line 44
AlertAppend(t) ==
    /\ pc[t] = "aa_append"
    /\ alerts_buffer' = Append(alerts_buffer, call[t].data)
    /\ alertLog' = Append(alertLog, call[t].data)
    /\ Goto(t, "aa_evict")
    /\ UNCHANGED <<latest_readings, health_scores, risk_scores, anomaly_history, lock, clock,
                   call, procVars, batchVars, legacyVars, feed, horizon, stopAt, sleeps, readerVars, anomalyLog, writeLog>>

\* add_alert, lines 45-46
AlertEvict(t) ==
    /\ pc[t] = "aa_evict"
    /\ alerts_buffer' = AlertsAfterEvict(alerts_buffer)
    /\ Leave(t)
    /\ UNCHANGED <<latest_readings, health_scores, risk_scores, anomaly_history, clock,
                   procVars, batchVars, legacyVars, feed, horizon, stopAt, sleeps, readerVars, histVars>>

\* add_anomaly, line 51
AnomalyAppend(t) ==
    /\ pc[t] = "an_append"
    /\ anomaly_history' = DictSet(anomaly_history, call[t].city,
                                  Append(HistoryOf(anomaly_history, call[t].city), call[t].tag))
    /\ anomalyLog' = DictSet(anomalyLog, call[t].city,
                             Append(HistoryOf(anomalyLog, call[t].city), call[t].tag))
    /\ Goto(t, "an_evict")
    /\ UNCHANGED <<latest_readings, alerts_buffer, health_scores, risk_scores, lock, clock,
                   call, procVars, batchVars, legacyVars, feed, horizon, stopAt, sleeps, readerVars, alertLog, writeLog>>

\* add_anomaly, lines 52-53
AnomalyEvict(t) ==
    /\ pc[t] = "an_evict"
    /\ anomaly_history' = [anomaly_history EXCEPT
                             ![call[t].city] = HistoryAfterEvict(@)]
    /\ Leave(t)
    /\ UNCHANGED <<latest_readings, alerts_buffer, health_scores, risk_scores, clock,
                   procVars, batchVars, legacyVars, feed, horizon, stopAt, sleeps, readerVars, histVars>>

StoreStep(t) ==
    \/ UpdateLatest(t)
    \/ UpdateScores(t)
    \/ AlertAppend(t)
    \/ AlertEvict(t)
    \/ AnomalyAppend(t)
    \/ AnomalyEvict(t)

-----------------------------------------------------------------------------
(* PathwayStreamProcessor.continuous_update_from_generator *)

\* a variant in which the loop variable stays on the first city
FirstCityOnly == TrackedCities[1]

City == TrackedCities[idx]

\* mutant of the except clause: the loop ends there
StopsAfterExcept == "stopped"

\* a variant in which the except clause falls through to the sleep of line 177
SleepsAgainAfterExcept == "sleep"

\* where the loop goes after the except clause's sleep (lines 152, 178-180)
AfterExcept == "fetch"

\* line 155
P_Fetch ==
    /\ pc[Proc] = "fetch"
    /\ LET s == FeedAt(City, tick) IN
         IF s.kind = "raise"
         THEN /\ Goto(Proc, "except")
              /\ UNCHANGED <<reading, clock>>
         ELSE /\ reading' = GenerateReading(City, s, clock)
              /\ clock' = clock + 1
              /\ Goto(Proc, "classify")
    /\ UNCHANGED <<storeVars, lock, call, tick, idx, tickStart, batchVars, legacyVars, feed, horizon, stopAt, sleeps, readerVars, histVars>>

\* lines 158-168
P_Classify ==
    /\ pc[Proc] = "classify"
    /\ IF ClassifyRaises(reading)
       THEN /\ Goto(Proc, "except")
            /\ UNCHANGED reading
       ELSE /\ reading' = Classified(reading)
            /\ Goto(Proc, "update")
    /\ UNCHANGED <<storeVars, lock, clock, call, tick, idx, tickStart, batchVars, legacyVars, feed, horizon, stopAt, sleeps, readerVars, histVars>>

\* line 170
P_Update ==
    /\ pc[Proc] = "update"
    /\ Enter(Proc, City, reading, <<>>, "check", "ur_latest")
    /\ UNCHANGED <<storeVars, clock, procVars, batchVars, legacyVars, feed, horizon, stopAt, sleeps, readerVars, histVars>>

\* lines 173-174
P_Alert ==
    /\ pc[Proc] = "check"
    /\ IsAlertSeverity(reading.severity)
    /\ Enter(Proc, City, reading, <<>>, "anomaly", "aa_append")
    /\ UNCHANGED <<storeVars, clock, procVars, batchVars, legacyVars, feed, horizon, stopAt, sleeps, readerVars, histVars>>

\* line 173, the guard false
P_NoAlert ==
    /\ pc[Proc] = "check"
    /\ ~ IsAlertSeverity(reading.severity)
    /\ Goto(Proc, "next")
    /\ UNCHANGED <<storeVars, lock, clock, call, procVars, batchVars, legacyVars, feed, horizon, stopAt, sleeps, readerVars, histVars>>

\* line 175
P_Anomaly ==
    /\ pc[Proc] = "anomaly"
    /\ Enter(Proc, City, EmptyDict, reading.anomaly_type, "next", "an_append")
    /\ UNCHANGED <<storeVars, clock, procVars, batchVars, legacyVars, feed, horizon, stopAt, sleeps, readerVars, histVars>>

\* line 154: the for loop moves on, or ends
P_NextCity ==
    /\ pc[Proc] = "next"
    /\ IF idx < Len(TrackedCities)
       THEN /\ idx' = idx + 1
            /\ Goto(Proc, "fetch")
       ELSE /\ idx' = idx
            /\ Goto(Proc, "sleep")
    /\ UNCHANGED <<storeVars, lock, clock, call, tick, reading, tickStart, batchVars, legacyVars, feed, horizon, stopAt, sleeps, readerVars, histVars>>

\* line 177, then line 152: the next iteration of while True
P_Sleep ==
    /\ pc[Proc] = "sleep"
    /\ tick < horizon
    /\ tick' = tick + 1
    /\ tickStart' = clock
    /\ idx' = 1
    /\ sleeps' = sleeps + 1
    /\ Goto(Proc, "fetch")
    /\ UNCHANGED <<storeVars, lock, clock, call, reading, batchVars, legacyVars, feed, horizon, stopAt, readerVars, histVars>>

\* lines 178-180, then line 152
P_Except ==
    /\ pc[Proc] = "except"
    /\ tick < horizon
    /\ tick' = tick + 1
    /\ tickStart' = clock
    /\ idx' = 1
    /\ sleeps' = sleeps + 1
    /\ Goto(Proc, AfterExcept)
    /\ UNCHANGED <<storeVars, lock, clock, call, reading, batchVars, legacyVars, feed, horizon, stopAt, readerVars, histVars>>

ProcessorStep ==
    \/ P_Fetch
    \/ P_Classify
    \/ P_Update
    \/ P_Alert
    \/ P_NoAlert
    \/ P_Anomaly
    \/ P_NextCity
    \/ P_Sleep
    \/ P_Except
    \/ StoreStep(Proc)


-----------------------------------------------------------------------------
(* The transformation pipeline whose tables process_pathway_results takes: *)
(* EnvironmentalAnomalyDetector and PathwayTransformationPipeline          *)

\* classify_aqi_severity
ClassifyAqiSeverity(aqi) ==
    IF aqi >= AQI_CRITICAL THEN "critical"
    ELSE IF aqi >= AQI_WARNING THEN "warning"
    ELSE "normal"

\* classify_co2_severity
ClassifyCo2Severity(co2) ==
    IF co2 >= CO2_CRITICAL THEN "critical"
    ELSE IF co2 >= CO2_WARNING THEN "warning"
    ELSE "normal"

\* EnvironmentalAnomalyDetector.compute_risk_score, in hundredths
PipelineRiskScore(aqi, co2, temperature) ==
    LET aqi_score40  == Clamp(8 * aqi, 0, 4000)
        co2_score40  == Clamp(10 * (co2 - 400), 0, 4000)
        temp_score   == IF temperature > 35 THEN Min(100, (temperature - 35) * 5)
                        ELSE IF temperature < 10 THEN Min(100, (10 - temperature) * 3)
                        ELSE 0
    IN  aqi_score40 + co2_score40 + 20 * temp_score

\* EnvironmentalAnomalyDetector.get_anomaly_type: the first matching tag
PipelineAnomalyType(aqi, co2, temperature, humidity) ==
    IF aqi > AQI_CRITICAL THEN <<"high_aqi">>
    ELSE IF co2 > CO2_CRITICAL THEN <<"high_co2">>
    ELSE IF temperature > 45 THEN <<"extreme_heat">>
    ELSE IF humidity > 80 THEN <<"high_humidity">>
    ELSE <<"normal">>

\* apply_overall_severity.get_severity
GetSeverity(aqi_sev, co2_sev) ==
    IF aqi_sev = "critical" \/ co2_sev = "critical" THEN "critical"
    ELSE IF aqi_sev = "warning" \/ co2_sev = "warning" THEN "warning"
    ELSE "normal"

\* apply_health_metrics.compute_health_score, in hundredths: int() drops the fraction
ComputeHealthScore(risk) == 100 * Max(0, Min(100, (10000 - risk) \div 100))

\* apply_health_metrics.get_air_quality_class
GetAirQualityClass(aqi) ==
    IF aqi > 300 THEN "hazardous"
    ELSE IF aqi > 200 THEN "very_unhealthy"
    ELSE IF aqi > 150 THEN "unhealthy"
    ELSE IF aqi > 100 THEN "unhealthy_for_groups"
    ELSE IF aqi > 50 THEN "moderate"
    ELSE "good"

\* a row of the with_health table, from a raw row
WithHealth(raw) ==
    LET aqi_sev == ClassifyAqiSeverity(raw.aqi)
        co2_sev == ClassifyCo2Severity(raw.co2)
        risk == PipelineRiskScore(raw.aqi, raw.co2, raw.temperature)
    IN  [city |-> raw.city, aqi |-> raw.aqi, co2 |-> raw.co2,
         temperature |-> raw.temperature, humidity |-> raw.humidity,
         timestamp |-> raw.timestamp,
         aqi_severity |-> aqi_sev, co2_severity |-> co2_sev,
         anomaly_type |-> PipelineAnomalyType(raw.aqi, raw.co2, raw.temperature, raw.humidity),
         risk_score |-> risk,
         severity |-> GetSeverity(aqi_sev, co2_sev),
         health_score |-> ComputeHealthScore(risk),
         air_quality_class |-> GetAirQualityClass(raw.aqi)]

\* filter_alerts: the rows whose severity is critical or warning
RECURSIVE FilterAlerts(_)
FilterAlerts(rows) ==
    IF rows = <<>> THEN <<>>
    ELSE LET rest == FilterAlerts(Tail(rows)) IN
         IF Head(rows).severity = "critical" \/ Head(rows).severity = "warning"
         THEN <<Head(rows)>> \o rest
         ELSE rest

\* the columns apply_severity_classification selects (lines 83-88)
RawColumns == {"city", "aqi", "co2", "temperature", "humidity", "timestamp"}

\* build_complete_pipeline: the tables handed on, as lists of rows; a raw table
\* without one of the selected columns raises in the try block, and the except
\* clause (lines 203-210) returns the raw table under every key
PipelineTables(raw_rows) ==
    IF \A i \in 1..Len(raw_rows) : RawColumns \subseteq DOMAIN raw_rows[i]
    THEN LET with_health == [i \in 1..Len(raw_rows) |-> WithHealth(raw_rows[i])]
         IN  [processed |-> with_health, alerts |-> FilterAlerts(with_health)]
    ELSE [processed |-> raw_rows, alerts |-> raw_rows]

NoBatch == [processed |-> <<>>, alerts |-> <<>>]

\* raw rows: a reading of the source, as a row of the raw table
RawRow(city, s, timestamp) ==
    IF s.kind = "partial"
    THEN [city |-> city, aqi |-> s.aqi, co2 |-> s.co2, timestamp |-> timestamp]
    ELSE [city |-> city, aqi |-> s.aqi, co2 |-> s.co2, temperature |-> s.temperature,
          humidity |-> s.humidity, timestamp |-> timestamp]

-----------------------------------------------------------------------------
(* PathwayStreamProcessor.process_pathway_results *)

\* record.get("city") is truthy
Truthy(city) == city # ""

\* alert.get("anomaly_type", "unknown")
AnomalyTypeOf(alert) ==
    IF "anomaly_type" \in DOMAIN alert THEN alert.anomaly_type ELSE <<"unknown">>

\* the call, with the tables of the pipeline over some raw rows
W_Call(raw_rows) ==
    /\ pc[Writer] = "idle"
    /\ wcalls > 0
    /\ wcalls' = wcalls - 1
    /\ batch' = PipelineTables(raw_rows)
    /\ wi' = 1
    /\ Goto(Writer, "w_records")
    /\ UNCHANGED <<storeVars, lock, clock, call, procVars, legacyVars, feed, horizon, stopAt, sleeps, readerVars, histVars>>

\* lines 132-135
W_Record ==
    /\ pc[Writer] = "w_records"
    /\ wi <= Len(batch.processed)
    /\ wi' = wi + 1
    /\ LET record == batch.processed[wi] IN
         IF Truthy(record.city)
         THEN Enter(Writer, record.city, record, <<>>, "w_records", "ur_latest")
         ELSE UNCHANGED <<lock, call, pc>>
    /\ UNCHANGED <<storeVars, clock, procVars, batch, wcalls, legacyVars, feed, horizon, stopAt, sleeps, readerVars, histVars>>

\* line 132: the first loop ends
W_RecordsDone ==
    /\ pc[Writer] = "w_records"
    /\ wi > Len(batch.processed)
    /\ wi' = 1
    /\ Goto(Writer, "w_alerts")
    /\ UNCHANGED <<storeVars, lock, clock, call, procVars, batch, wcalls, legacyVars, feed, horizon, stopAt, sleeps, readerVars, histVars>>

\* lines 138-139
W_Alert ==
    /\ pc[Writer] = "w_alerts"
    /\ wi <= Len(batch.alerts)
    /\ Enter(Writer, "", batch.alerts[wi], <<>>, "w_anomaly", "aa_append")
    /\ UNCHANGED <<storeVars, clock, procVars, batchVars, legacyVars, feed, horizon, stopAt, sleeps, readerVars, histVars>>

\* lines 140-143
W_Anomaly ==
    /\ pc[Writer] = "w_anomaly"
    /\ wi' = wi + 1
    /\ LET alert == batch.alerts[wi] IN
         IF Truthy(alert.city)
         THEN Enter(Writer, alert.city, EmptyDict, AnomalyTypeOf(alert), "w_alerts", "an_append")
         ELSE /\ Goto(Writer, "w_alerts")
              /\ UNCHANGED <<lock, call>>
    /\ UNCHANGED <<storeVars, clock, procVars, batch, wcalls, legacyVars, feed, horizon, stopAt, sleeps, readerVars, histVars>>

\* line 138: the second loop ends, the method returns
W_Return ==
    /\ pc[Writer] = "w_alerts"
    /\ wi > Len(batch.alerts)
    /\ wi' = 1
    /\ batch' = NoBatch
    /\ Goto(Writer, "idle")
    /\ UNCHANGED <<storeVars, lock, clock, call, procVars, wcalls, legacyVars, feed, horizon, stopAt, sleeps, readerVars, histVars>>

WriterStep(rows) ==
    \/ \E raw_rows \in rows : W_Call(raw_rows)
    \/ W_Record
    \/ W_RecordsDone
    \/ W_Alert
    \/ W_Anomaly
    \/ W_Return
    \/ StoreStep(Writer)

-----------------------------------------------------------------------------
(* PathwayDataStore: the read methods, and a caller that keeps what it got *)

\* Python's None
None == [none |-> TRUE]

\* round(num / den, 0) for num >= 0, den > 0: Python rounds a tie to even
RoundHalfEven(num, den) ==
    LET q == num \div den
        r == num % den
    IN  IF 2 * r < den THEN q
        ELSE IF 2 * r > den THEN q + 1
        ELSE IF q % 2 = 0 THEN q ELSE q + 1

\* Python's ZeroDivisionError, as the value of the expression that raises it
ZeroDivisionError == [raised |-> "ZeroDivisionError"]

\* mutant of the conditional expressions of the averages: the division is not guarded
Unguarded(nonempty) == TRUE

\* `sum / len if xs else 0` (lines 96-97): whether the division is evaluated
Guarded(nonempty) == nonempty

\* the division of an average raises: it is evaluated with a zero divisor
DivisionRaises(den, nonempty) == Guarded(nonempty) /\ den = 0

\* `sum / len if xs else 0`, rounded (lines 96-97, 103-104), when it does not raise
MeanOrZero(num, den, nonempty) == IF Guarded(nonempty) THEN RoundHalfEven(num, den) ELSE 0

RECURSIVE SumOver(_, _)
SumOver(f, keys) ==
    IF keys = {} THEN 0
    ELSE LET k == CHOOSE x \in keys : TRUE IN f[k] + SumOver(f, keys \ {k})

\* the number of entries of the list with this severity
CountSeverity(buf, sev) ==
    Cardinality({i \in 1..Len(buf) :
                   "severity" \in DOMAIN buf[i] /\ buf[i].severity = sev})

\* a reference to a dict: the store's own latest_readings (alias), or a dict
\* of the caller's with the entries val
NothingHeld == [has |-> FALSE, alias |-> FALSE, val |-> EmptyDict, touched |-> FALSE]

\* mutant of get_all_readings: it returns self.latest_readings itself
GetAllReadingsNoCopy == [has |-> TRUE, alias |-> TRUE, val |-> EmptyDict, touched |-> FALSE]

\* get_all_readings, line 58: dict(self.latest_readings), a new dict
GetAllReadingsResult ==
    [has |-> TRUE, alias |-> FALSE, val |-> latest_readings, touched |-> FALSE]

\* the entries a reference stands for
Entries(ref) == IF ref.alias THEN latest_readings ELSE ref.val

\* mutant of get_city_reading: a record of default values for a missing city
GetCityReadingOrDefault(city) ==
    IF city \in DOMAIN latest_readings THEN latest_readings[city]
    ELSE [city |-> city, aqi |-> 0, co2 |-> 0, severity |-> "normal"]

\* get_city_reading, line 63: self.latest_readings.get(city)
GetCityReading(city) ==
    IF city \in DOMAIN latest_readings THEN latest_readings[city] ELSE None

\* get_dashboard_summary, lines 93-107, without its timestamp; the averages in
\* tenths, the city list as a set
GetDashboardSummary ==
    LET cities == DOMAIN latest_readings
        aqis == [c \in cities |-> IF "aqi" \in DOMAIN latest_readings[c]
                                  THEN latest_readings[c].aqi ELSE 0]
        scored == DOMAIN health_scores
    IN  IF \/ DivisionRaises(Cardinality(cities), cities # {})
           \/ DivisionRaises(Cardinality(scored), scored # {})
        THEN ZeroDivisionError ELSE
        [total_cities |-> Cardinality(cities),
         cities |-> cities,
         critical_alerts |-> CountSeverity(alerts_buffer, "critical"),
         warnings |-> CountSeverity(alerts_buffer, "warning"),
         average_aqi |->
             MeanOrZero(10 * SumOver(aqis, cities), Cardinality(cities), cities # {}),
         average_health_score |->
             MeanOrZero(SumOver(health_scores, scored), 10 * Cardinality(scored),
                        scored # {})]

\* what the store's reads return in the current state
StoreReads ==
    [all |-> Entries(GetAllReadingsResult),
     city |-> [c \in AllCities |-> GetCityReading(c)],
     summary |-> GetDashboardSummary]

\* the caller calls get_all_readings (lines 55-58, under the lock) and keeps the map
R_GetAllReadings ==
    /\ rleft > 0
    /\ lock = Free
    /\ rleft' = rleft - 1
    /\ held' = GetAllReadingsResult
    /\ UNCHANGED <<query, resp>>
    /\ UNCHANGED <<storeVars, lock, clock, pc, call, procVars, batchVars, legacyVars, feed, horizon, stopAt, sleeps,
                   histVars>>

\* a record of the caller's own
CallerRecord == [city |-> "caller", aqi |-> 999]

\* the caller's change to a map m: m[city] = record (add or replace), or del m[city]
Changed(m, op, city) ==
    IF op = "del" THEN [c \in (DOMAIN m) \ {city} |-> m[c]]
    ELSE DictSet(m, city, CallerRecord)

\* the caller changes the map it holds: the store's own dict if that is what it holds
R_Change(op, city) ==
    /\ rleft > 0
    /\ held.has
    /\ op = "del" => city \in DOMAIN Entries(held)
    /\ rleft' = rleft - 1
    /\ IF held.alias
       THEN /\ latest_readings' = Changed(latest_readings, op, city)
            /\ held' = [held EXCEPT !.touched = TRUE]
       ELSE /\ held' = [held EXCEPT !.val = Changed(held.val, op, city), !.touched = TRUE]
            /\ UNCHANGED latest_readings
    /\ UNCHANGED <<alerts_buffer, health_scores, risk_scores, anomaly_history, query, resp,
                   lock, clock, pc, call, procVars, batchVars, legacyVars, feed, horizon, stopAt, sleeps, histVars>>

R_Changes == \E op \in {"set", "del"}, city \in AllCities : R_Change(op, city)

ReaderStep ==
    \/ R_GetAllReadings
    \/ R_Changes

-----------------------------------------------------------------------------
(* PathwayDataStore: the remaining read methods, and a reader calling them *)

\* d.get(k)
DictGet(d, k) == IF k \in DOMAIN d THEN d[k] ELSE None

\* d.get(k, default)
DictGetOr(d, k, default) == IF k \in DOMAIN d THEN d[k] ELSE default

\* get_critical_alerts, line 68
GetCriticalAlerts(limit) ==
    SliceFromMinus(WithSeverity(alerts_buffer, "critical"), limit)

\* get_warnings, line 73
GetWarnings(limit) ==
    SliceFromMinus(WithSeverity(alerts_buffer, "warning"), limit)

\* None as the value of an Optional[float]: no score is negative
NoScore == -1

\* get_health_score, line 78: self.health_scores.get(city)
GetHealthScore(city) == DictGetOr(health_scores, city, NoScore)

\* get_risk_score, line 83: self.risk_scores.get(city)
GetRiskScore(city) == DictGetOr(risk_scores, city, NoScore)

\* get_city_anomaly_history, line 88: list(self.anomaly_history.get(city, []))
GetCityAnomalyHistory(city) == DictGetOr(anomaly_history, city, <<>>)

\* mutant of get_city_anomaly_history: self.anomaly_history[city] on the
\* defaultdict, which stores [] under a missing key
HistoryAfterIndex(hist, city) ==
    IF city \in DOMAIN hist THEN hist ELSE DictSet(hist, city, <<>>)

\* the defaultdict after .get(city, []): .get does not create the key
HistoryAfterGet(hist, city) == hist

\* mutant of the read methods: they do not take the lock
ReadWithoutLock(l) == TRUE

\* `with self.lock:` of a read method, which holds it for the whole read
ReadLock(l) == l = Free

StoreReadOps ==
    {"get_all_readings", "get_city_reading", "get_critical_alerts", "get_warnings",
     "get_health_score", "get_risk_score", "get_city_anomaly_history",
     "get_dashboard_summary"}

\* what the read method returns in the current state
StoreReadResult(op, city, limit) ==
    CASE op = "get_all_readings" -> Entries(GetAllReadingsResult)
      [] op = "get_city_reading" -> GetCityReading(city)
      [] op = "get_critical_alerts" -> GetCriticalAlerts(limit)
      [] op = "get_warnings" -> GetWarnings(limit)
      [] op = "get_health_score" -> GetHealthScore(city)
      [] op = "get_risk_score" -> GetRiskScore(city)
      [] op = "get_city_anomaly_history" -> GetCityAnomalyHistory(city)
      [] op = "get_dashboard_summary" -> GetDashboardSummary

NoQuery == [op |-> "", city |-> "", reading |-> None, health_score |-> NoScore]
NoResponse == [op |-> "", city |-> "", limit |-> 0, status |-> 0, body |-> None]

Response(op, city, limit, status, body) ==
    [op |-> op, city |-> city, limit |-> limit, status |-> status, body |-> body]

\* the read methods with a city argument, and those with a limit
CityReadOps ==
    {"get_city_reading", "get_health_score", "get_risk_score", "get_city_anomaly_history"}
LimitReadOps == {"get_critical_alerts", "get_warnings"}

\* the reader calls one read method of the store
Q_StoreRead(op, city, limit) ==
    /\ pc[Reader] = "idle"
    /\ rleft > 0
    /\ resp = NoResponse
    /\ op \notin CityReadOps => city = ""
    /\ op \notin LimitReadOps => limit = 0
    /\ ReadLock(lock)
    /\ rleft' = rleft - 1
    /\ resp' = Response(op, city, limit, 0, StoreReadResult(op, city, limit))
    /\ anomaly_history' = IF op = "get_city_anomaly_history"
                          THEN HistoryAfterGet(anomaly_history, city)
                          ELSE anomaly_history
    /\ UNCHANGED <<latest_readings, alerts_buffer, health_scores, risk_scores,
                   lock, clock, pc, call, procVars, batchVars, legacyVars, feed, horizon, stopAt, sleeps,
                   held, query, histVars>>

-----------------------------------------------------------------------------
(* api.py: the request handlers.  They are coroutines without an await, so *)
(* one runs at a time; the processor's thread runs between their store     *)
(* calls.  status is the HTTP status, 404 for HTTPException(404).          *)

\* pipeline.py, lines 8-12: the legacy pipeline's state; api.py imports
\* run_pipeline and never starts it, so this is what its handlers read
PipelineState == [alerts |-> <<>>, stats |-> <<>>, latest_readings |-> EmptyDict]

\* truth value of a dict or None
TruthyDict(r) == r # None /\ r # EmptyDict

\* truth value of a list
TruthyList(l) == l # <<>>

\* truth value of a number or None
TruthyNumber(x) == x # NoScore /\ x # 0

\* [a for a in alerts if a["city"] == city]
RECURSIVE OfCity(_, _)
OfCity(alerts, city) ==
    IF alerts = <<>> THEN <<>>
    ELSE LET rest == OfCity(Tail(alerts), city) IN
         IF Head(alerts).city = city THEN <<Head(alerts)>> \o rest ELSE rest

\* get_city_reading, lines 122-132
ApiGetCityReading(city) ==
    LET r == GetCityReading(city) IN
    IF TruthyDict(r) THEN Response("city_reading", city, 0, 200, r)
    ELSE IF city \in DOMAIN PipelineState.latest_readings
         THEN Response("city_reading", city, 0, 200, PipelineState.latest_readings[city])
         ELSE Response("city_reading", city, 0, 404, None)

\* get_alerts, lines 134-138
ApiGetAlerts(limit) ==
    LET alerts == GetCriticalAlerts(limit) IN
    Response("alerts", "", limit, 200,
             IF TruthyList(alerts) THEN alerts
             ELSE SliceFromMinus(PipelineState.alerts, limit))

\* get_critical_alerts, lines 140-143
ApiGetCriticalAlerts(limit) ==
    Response("alerts_critical", "", limit, 200, GetCriticalAlerts(limit))

\* get_warning_alerts, lines 145-148
ApiGetWarningAlerts(limit) ==
    Response("alerts_warnings", "", limit, 200, GetWarnings(limit))

\* what the enrichment does for one request: gemini_model is None (lines
\* 35-46), generate_content raises, or it replies with the lines of response.text
NotConfigured == [kind |-> "not_configured", lines |-> <<>>]
GeminiRaises == [kind |-> "raises", lines |-> <<>>]
GeminiReplies(lines) == [kind |-> "reply", lines |-> lines]

\* line.startswith(prefix)
StartsWith(line, prefix) ==
    Len(line) >= Len(prefix) /\ SubSeq(line, 1, Len(prefix)) = prefix

\* line.replace(old, '')
RECURSIVE Removed(_, _)
Removed(line, old) ==
    LET at == {i \in 1..(Len(line) - Len(old) + 1) :
                  SubSeq(line, i, i + Len(old) - 1) = old}
        first == CHOOSE i \in at : \A j \in at : i <= j
    IN  IF at = {} THEN line
        ELSE SubSeq(line, 1, first - 1)
               \o Removed(SubSeq(line, first + Len(old), Len(line)), old)

\* text.strip(), for blanks
RECURSIVE Strip(_)
Strip(text) ==
    IF text = "" THEN text
    ELSE IF SubSeq(text, 1, 1) = " " THEN Strip(SubSeq(text, 2, Len(text)))
    ELSE IF SubSeq(text, Len(text), Len(text)) = " "
         THEN Strip(SubSeq(text, 1, Len(text) - 1))
    ELSE text

\* text[:250], lines 244-245
TextLimit == 250
Truncated(text) == IF Len(text) > TextLimit THEN SubSeq(text, 1, TextLimit) ELSE text

\* lines 197-198: the texts before the enrichment
DefaultTexts ==
    [explanation |-> "High pollution levels detected.",
     recommendation |-> "Monitor air quality and limit outdoor activities."]

\* lines 215-219: the loop over the lines of the reply
RECURSIVE ParsedReply(_, _)
ParsedReply(lines, texts) ==
    IF lines = <<>> THEN texts
    ELSE LET line == Head(lines) IN
         ParsedReply(Tail(lines),
            IF StartsWith(line, "EXPLANATION:")
            THEN [texts EXCEPT !.explanation = Strip(Removed(line, "EXPLANATION:"))]
            ELSE IF StartsWith(line, "RECOMMENDATION:")
            THEN [texts EXCEPT !.recommendation = Strip(Removed(line, "RECOMMENDATION:"))]
            ELSE texts)

\* a variant whose bands include their lower bound
FallbackBandsInclusive(r) ==
    LET aqi == DictGetOr(r, "aqi", 150) IN
    IF aqi >= 300
    THEN [explanation |-> "CRITICAL: AQI " \o ToString(aqi)
                            \o " indicates hazardous air quality.",
          recommendation |-> "Stay indoors, close windows, and use air purifiers."]
    ELSE IF aqi >= 200
    THEN [explanation |-> "Poor air quality (AQI " \o ToString(aqi)
                            \o "). CO2 levels are elevated.",
          recommendation |-> "Limit outdoor activities and wear protective masks."]
    ELSE [explanation |-> "Moderate pollution detected (AQI " \o ToString(aqi) \o ").",
          recommendation |-> "Monitor air quality conditions."]

\* lines 222-232: the texts of the except block
FallbackTexts(r) ==
    LET aqi == DictGetOr(r, "aqi", 150) IN
    IF aqi > 300
    THEN [explanation |-> "CRITICAL: AQI " \o ToString(aqi)
                            \o " indicates hazardous air quality.",
          recommendation |-> "Stay indoors, close windows, and use air purifiers."]
    ELSE IF aqi > 200
    THEN [explanation |-> "Poor air quality (AQI " \o ToString(aqi)
                            \o "). CO2 levels are elevated.",
          recommendation |-> "Limit outdoor activities and wear protective masks."]
    ELSE [explanation |-> "Moderate pollution detected (AQI " \o ToString(aqi) \o ").",
          recommendation |-> "Monitor air quality conditions."]

\* lines 201-219: what raises inside the try block
EnrichmentRaises(r, enrichment) ==
    \/ enrichment.kind = "not_configured"
    \/ ~ ({"aqi", "co2"} \subseteq DOMAIN r)
    \/ enrichment.kind = "raises"

\* a variant in which the exception leaves the handler
ExceptCatchesNothing(raised) == raised

\* line 221, `except Exception`: whether an exception of the try block escapes it
Escapes(raised) == FALSE

\* get_insights, lines 184-247
ApiGetInsights(city, now, enrichment) ==
    LET stored == GetCityReading(city)
        city_alerts == OfCity(PipelineState.alerts, city)
        found == TruthyDict(stored) \/ TruthyList(city_alerts)
        r == IF TruthyDict(stored) THEN stored ELSE city_alerts[Len(city_alerts)]
        severity == DictGetOr(r, "severity", "warning")
        raised == EnrichmentRaises(r, enrichment)
        texts == IF raised THEN FallbackTexts(r)
                 ELSE ParsedReply(enrichment.lines, DefaultTexts)
    IN  IF ~ found THEN Response("insights", city, 0, 404, None)
        ELSE IF Escapes(raised) THEN Response("insights", city, 0, 500, None)
        ELSE Response("insights", city, 0, 200,
                 [alert |-> [city |-> city,
                             aqi |-> DictGetOr(r, "aqi", 0),
                             co2 |-> DictGetOr(r, "co2", 0),
                             temperature |-> DictGetOr(r, "temperature", 0),
                             humidity |-> DictGetOr(r, "humidity", 0),
                             timestamp |-> DictGetOr(r, "timestamp", now),
                             severity |-> severity],
                  explanation |-> Truncated(texts.explanation),
                  recommendation |-> Truncated(texts.recommendation),
                  severity_level |-> severity])

\* get_dashboard, lines 249-280, without recent_stats and its timestamp; the
\* averages in tenths, the city list as a set
ApiGetDashboard ==
    LET stored == Entries(GetAllReadingsResult)
        readings == IF stored # EmptyDict THEN stored ELSE PipelineState.latest_readings
        cities == DOMAIN readings
        alerts == PipelineState.alerts
        total_cities == Cardinality(cities)
        aqis == [c \in cities |-> DictGetOr(readings[c], "aqi", 0)]
        healths == [c \in cities |-> DictGetOr(readings[c], "health_score", 5000)]
    IN  IF DivisionRaises(total_cities, total_cities # 0)
        THEN Response("dashboard", "", 0, 500, ZeroDivisionError) ELSE
        Response("dashboard", "", 0, 200,
            [total_cities |-> total_cities,
             cities |-> cities,
             critical_alerts |-> Len(WithSeverity(alerts, "critical")),
             warnings |-> Len(WithSeverity(alerts, "warning")),
             average_aqi |-> MeanOrZero(10 * SumOver(aqis, cities), total_cities,
                                        total_cities # 0),
             average_health_score |-> MeanOrZero(SumOver(healths, cities),
                                                 10 * total_cities, total_cities # 0),
             readings |-> readings,
             recent_alerts |-> SliceFromMinus(alerts, 10)])

\* a handler that calls the store once
ApiResponse(op, city, limit, enrichment) ==
    CASE op = "city_reading" -> ApiGetCityReading(city)
      [] op = "alerts" -> ApiGetAlerts(limit)
      [] op = "alerts_critical" -> ApiGetCriticalAlerts(limit)
      [] op = "alerts_warnings" -> ApiGetWarningAlerts(limit)
      [] op = "insights" -> ApiGetInsights(city, clock, enrichment)
      [] op = "dashboard" -> ApiGetDashboard

\* n copies of a text
RECURSIVE Repeated(_, _)
Repeated(text, n) == IF n = 0 THEN "" ELSE text \o Repeated(text, n - 1)

\* the enrichment behaviours a request can meet: not configured, raising, a
\* reply without the expected lines, and a reply with them (one of them longer
\* than the text limit)
NoEnrichment == [kind |-> "unused", lines |-> <<>>]
UnexpectedReply == GeminiReplies(<<"I cannot help with that request.">>)
ExpectedReply ==
    GeminiReplies(<<"EXPLANATION: Smog over the city.",
                    "RECOMMENDATION: " \o Repeated("Stay indoors. ", 20)>>)
GeminiOutcomes == {NotConfigured, GeminiRaises, UnexpectedReply, ExpectedReply}
EnrichmentsOf(op) == IF op = "insights" THEN GeminiOutcomes ELSE {NoEnrichment}

\* one request served by a handler with a single store call
Q_ApiWith(op, city, limit, enrichment) ==
    /\ pc[Reader] = "idle"
    /\ rleft > 0
    /\ resp = NoResponse
    /\ op \notin {"city_reading", "insights"} => city = ""
    /\ op \notin {"alerts", "alerts_critical", "alerts_warnings"} => limit = 0
    /\ ReadLock(lock)
    /\ rleft' = rleft - 1
    /\ resp' = ApiResponse(op, city, limit, enrichment)
    /\ UNCHANGED <<storeVars, lock, clock, pc, call, procVars, batchVars, legacyVars, feed, horizon, stopAt, sleeps,
                   held, query, histVars>>

Q_Api(op, city, limit) ==
    \E enrichment \in EnrichmentsOf(op) : Q_ApiWith(op, city, limit, enrichment)

\* get_city_health, lines 153-157: the reading, or 404
H_Reading(city) ==
    /\ pc[Reader] = "idle"
    /\ rleft > 0
    /\ resp = NoResponse
    /\ ReadLock(lock)
    /\ rleft' = rleft - 1
    /\ LET stored == GetCityReading(city)
           legacy == city \in DOMAIN PipelineState.latest_readings
       IN  IF TruthyDict(stored) \/ legacy
           THEN /\ query' = [op |-> "city_health", city |-> city,
                             reading |-> IF TruthyDict(stored) THEN stored
                                         ELSE PipelineState.latest_readings[city],
                             health_score |-> NoScore]
                /\ Goto(Reader, "h_health")
                /\ UNCHANGED resp
           ELSE /\ resp' = Response("city_health", city, 0, 404, None)
                /\ UNCHANGED <<query, pc>>
    /\ UNCHANGED <<storeVars, lock, clock, call, procVars, batchVars, legacyVars, feed, horizon, stopAt, sleeps,
                   held, histVars>>

\* get_city_health, line 159
H_Health ==
    /\ pc[Reader] = "h_health"
    /\ ReadLock(lock)
    /\ query' = [query EXCEPT !.health_score = GetHealthScore(query.city)]
    /\ Goto(Reader, "h_risk")
    /\ UNCHANGED <<storeVars, lock, clock, call, procVars, batchVars, legacyVars, feed, horizon, stopAt, sleeps,
                   held, rleft, resp, histVars>>

\* get_city_health, lines 160-170
H_Risk ==
    /\ pc[Reader] = "h_risk"
    /\ ReadLock(lock)
    /\ LET health_score == query.health_score
           risk_score == GetRiskScore(query.city)
           r == query.reading
       IN  resp' = Response("city_health", query.city, 0, 200,
                     [city |-> query.city,
                      health_score |->
                          IF TruthyNumber(health_score) THEN health_score
                          ELSE IF TruthyNumber(risk_score) THEN 10000 - risk_score
                          ELSE 5000,
                      risk_score |-> IF TruthyNumber(risk_score) THEN risk_score ELSE 5000,
                      aqi |-> DictGet(r, "aqi"),
                      co2 |-> DictGet(r, "co2"),
                      severity |-> DictGetOr(r, "severity", "normal"),
                      timestamp |-> DictGet(r, "timestamp")])
    /\ query' = NoQuery
    /\ Goto(Reader, "idle")
    /\ UNCHANGED <<storeVars, lock, clock, call, procVars, batchVars, legacyVars, feed, horizon, stopAt, sleeps,
                   held, rleft, histVars>>

\* the result has been handed to the client
Q_Deliver ==
    /\ pc[Reader] = "idle"
    /\ resp # NoResponse
    /\ resp' = NoResponse
    /\ UNCHANGED <<storeVars, lock, clock, pc, call, procVars, batchVars, legacyVars, feed, horizon, stopAt, sleeps,
                   held, rleft, query, histVars>>

ApiOps ==
    {"city_reading", "alerts", "alerts_critical", "alerts_warnings", "insights", "dashboard"}

\* the calls of the store's read methods, with the arguments the reader may pass
StoreReadCalls(ops, cities, limits) ==
    \E op \in ops, c \in cities \cup {""}, l \in limits \cup {0} : Q_StoreRead(op, c, l)

\* the requests with one store call, with the arguments a client may pass
ApiRequests(ops, cities, limits) ==
    \E op \in ops, c \in cities \cup {""}, l \in limits \cup {0} : Q_Api(op, c, l)

\* the requests for the health metrics of a city
HealthRequests(cities) ==
    \/ \E c \in cities : H_Reading(c)
    \/ H_Health
    \/ H_Risk

-----------------------------------------------------------------------------
(* Initial states *)

\* PathwayDataStore.__init__, the processor at the top of its loop
InitStore ==
    /\ latest_readings = EmptyDict
    /\ stopAt = 0
    /\ sleeps = 0
    /\ pipeline_state = PipelineState
    /\ stream = <<>>
    /\ processed = 0
    /\ alerts_buffer = <<>>
    /\ health_scores = EmptyDict
    /\ risk_scores = EmptyDict
    /\ anomaly_history = EmptyDict
    /\ lock = Free
    /\ clock = 1
    /\ pc = [t \in Threads |-> IF t = Proc THEN "fetch" ELSE "idle"]
    /\ call = [t \in Threads |-> NoCall]
    /\ tick = 1
    /\ idx = 1
    /\ reading = EmptyDict
    /\ tickStart = 1
    /\ batch = NoBatch
    /\ wi = 1
    /\ held = NothingHeld
    /\ query = NoQuery
    /\ resp = NoResponse
    /\ alertLog = <<>>
    /\ anomalyLog = EmptyDict
    /\ writeLog = [c \in AllCities |-> NoWrites]

\* samples around every threshold of the classification
BoundaryAqi == {80, 100, 101, 200, 201}
BoundaryCo2 == {440, 500, 501, 600, 601}
BoundarySamples == {Sample("ok", a, c, 30, 50) : a \in BoundaryAqi, c \in BoundaryCo2}
HotSample == Sample("ok", 250, 620, 46, 85)
WarmSample == Sample("ok", 150, 450, 40, 50)
ColdSample == Sample("ok", 80, 440, 5, 50)
RaiseSample == Sample("raise", 0, 0, 0, 0)
PartialSample == Sample("partial", 250, 620, 0, 0)
NormalSample == Sample("ok", 80, 440, 28, 60)
WarningSample == Sample("ok", 150, 450, 30, 50)
CriticalSample == Sample("ok", 250, 620, 30, 50)

TickSamples ==
    BoundarySamples \cup {HotSample, WarmSample, ColdSample, RaiseSample, PartialSample}

\* one city yields any two samples in turn, the others one sample each time
InitTick ==
    /\ InitStore
    /\ horizon = MaxTicks
    /\ wcalls = 0
    /\ rleft = 0
    /\ \E hot \in Cities, s1 \in TickSamples,
          s2 \in {NormalSample, CriticalSample, RaiseSample},
          rest \in {NormalSample, CriticalSample} :
          feed = [c \in Cities |-> IF c = hot THEN <<s1, s2>> ELSE <<rest>>]

NextTick == ProcessorStep

SpecTick == InitTick /\ [][NextTick]_vars

\* the processor's thread is scheduled again and again
SpecTickFair == SpecTick /\ WF_vars(ProcessorStep)


-----------------------------------------------------------------------------
(* Long runs: the buffers fill and evict *)

\* one city critical on every tick and the others normal
SingleCityFeed(hot) ==
    [c \in Cities |-> IF c = hot THEN <<CriticalSample>> ELSE <<NormalSample>>]

\* every city alerting, the last one only every third tick, then failing
MixedFeed ==
    [c \in Cities |-> IF c = "Delhi" THEN <<CriticalSample, WarningSample>>
                      ELSE IF c = "Bangalore"
                           THEN <<WarningSample, NormalSample, RaiseSample>>
                           ELSE <<WarningSample>>]

InitLong ==
    /\ InitStore
    /\ horizon = LongTicks
    /\ wcalls = 0
    /\ rleft = 0
    /\ \/ \E hot \in {"Delhi", "Chennai"} : feed = SingleCityFeed(hot)
       \/ feed = MixedFeed

NextLong == ProcessorStep

SpecLong == InitLong /\ [][NextLong]_vars

\* the same feed with a second writer: one call of process_pathway_results
InitFifo ==
    /\ InitStore
    /\ horizon = MidTicks
    /\ wcalls = 1
    /\ rleft = 0
    /\ feed = MixedFeed

\* one raw row that names no city: the call appends its alert and nothing else
FifoRows == {<<RawRow("", CriticalSample, 0)>>}

NextFifo == ProcessorStep \/ WriterStep(FifoRows)

SpecFifo == InitFifo /\ [][NextFifo]_vars

-----------------------------------------------------------------------------
(* The bounded buffers *)

\* no thread is between the append and the pop(0) of add_alert, which it runs
\* holding the lock
NoAlertInFlight == \A t \in Threads : pc[t] # "aa_evict"
NoAnomalyInFlight == \A t \in Threads : pc[t] # "an_evict"

\* C1: whichever way the add_alert calls of the processor and of
\* process_pathway_results interleave, the alerts buffer a reader can see (no
\* add_alert is between its append and its eviction) holds at most 100 entries.
C1_AlertsBounded ==
    NoAlertInFlight => Len(alerts_buffer) <= AlertsCapacity

\* the buffer is full, has evicted, and holds alerts of both writers
C1_Witness ==
    /\ NoAlertInFlight
    /\ Len(alerts_buffer) = AlertsCapacity
    /\ Len(alertLog) > AlertsCapacity + 2
    /\ \E i, j \in 1..Len(alerts_buffer) :
         alerts_buffer[i].city = "" /\ alerts_buffer[j].city = "Delhi"

\* C2: after n add_alert calls the alerts buffer is the last min(n, 100) alerts
\* handed to add_alert, in the order they were appended.
C2_AlertsAreLastInserted ==
    NoAlertInFlight => alerts_buffer = LastN(alertLog, AlertsCapacity)

\* more than 100 alerts went in, so the oldest ones are gone
C2_Witness ==
    /\ NoAlertInFlight
    /\ feed = MixedFeed
    /\ Len(alertLog) = AlertsCapacity + 5
    /\ alerts_buffer[1] = alertLog[6]
    /\ alerts_buffer[1] # alertLog[1]

\* C3: each city's anomaly history is the last min(n, 50) tags handed to
\* add_anomaly for that city, in order, so it never holds more than 50, and a
\* call for one city leaves the history of every other city as it was.
C3_AnomalyHistoryBounded ==
    NoAnomalyInFlight =>
        \A c \in AllCities :
            /\ Len(HistoryOf(anomaly_history, c)) <= AnomalyCapacity
            /\ HistoryOf(anomaly_history, c)
                 = LastN(HistoryOf(anomalyLog, c), AnomalyCapacity)

\* one city has evicted while another has not yet filled its history
C3_Witness ==
    /\ NoAnomalyInFlight
    /\ Len(HistoryOf(anomalyLog, "Delhi")) > AnomalyCapacity + 1
    /\ Len(HistoryOf(anomaly_history, "Delhi")) = AnomalyCapacity
    /\ Len(HistoryOf(anomaly_history, "Bangalore")) \in 1..(AnomalyCapacity - 1)
    /\ HistoryOf(anomaly_history, "Delhi")[1] # HistoryOf(anomaly_history, "Delhi")[2]

\* C7: when one city is critical on every tick and no other city alerts, every
\* tick appends exactly one alert, and at the end of tick 150 the buffer holds
\* exactly 100 alerts, all critical, the oldest being the 51st appended.
C7_After150Ticks ==
    ((\E hot \in Cities : feed = SingleCityFeed(hot)) /\ pc[Proc] = "sleep") =>
        /\ Len(alertLog) = tick
        /\ tick = 150 =>
             /\ Len(alerts_buffer) = AlertsCapacity
             /\ \A i \in 1..Len(alerts_buffer) : alerts_buffer[i].severity = "critical"
             /\ alerts_buffer[1] = alertLog[51]
             /\ alerts_buffer[1] # alertLog[50]

C7_Witness ==
    /\ feed = SingleCityFeed("Chennai")
    /\ pc[Proc] = "sleep"
    /\ tick = 150
    /\ Len(alerts_buffer) = AlertsCapacity


-----------------------------------------------------------------------------
(* Classification and failures in the processor's loop *)

\* the severity the specification's thresholds give
ClaimedSeverity(aqi, co2) ==
    IF aqi >= 200 \/ co2 >= 600 THEN "critical"
    ELSE IF (100 <= aqi /\ aqi < 200) \/ (500 <= co2 /\ co2 < 600) THEN "warning"
    ELSE "normal"

\* C4: every reading the stream processor stores carries the severity of the
\* thresholds aqi >= 200 or co2 >= 600 (critical), aqi >= 100 or co2 >= 500
\* (warning), normal otherwise, the boundary values included.
C4_SeverityAtThresholds ==
    \A c \in DOMAIN latest_readings :
        latest_readings[c].severity
          = ClaimedSeverity(latest_readings[c].aqi, latest_readings[c].co2)

\* the tick of the processor has ended, one way or the other
TickEnded == pc[Proc] \in {"sleep", "except"}

\* city c was stored in the current tick, with its alert and anomaly if it has any
ProcessedThisTick(c) ==
    /\ c \in DOMAIN latest_readings
    /\ latest_readings[c].timestamp >= tickStart
    /\ IsAlertSeverity(latest_readings[c].severity) =>
         /\ \E i \in 1..Len(alertLog) :
              alertLog[i].city = c /\ alertLog[i].timestamp >= tickStart
         /\ HistoryOf(anomalyLog, c) # <<>>

\* C9: when the tick ends, every tracked city whose own reading the source
\* delivered in full has been processed in that tick, whatever happened to the
\* reading of another city.
C9_OtherCitiesStillProcessed ==
    TickEnded =>
        \A c \in Cities : FeedAt(c, tick).kind = "ok" => ProcessedThisTick(c)

\* C10: the loop never stops on an error: from the except clause the processor
\* always comes back to the top of the loop and starts the next tick.
C10_LoopSurvivesErrors ==
    /\ [](pc[Proc] # "stopped")
    /\ (pc[Proc] = "except" /\ tick < horizon) ~> (pc[Proc] = "fetch" /\ idx = 1)

\* a failure in the middle of a tick, after another city was stored
C10_Witness ==
    /\ pc[Proc] = "except"
    /\ tick < horizon
    /\ idx > 1
    /\ latest_readings # EmptyDict


-----------------------------------------------------------------------------
(* The processor and process_pathway_results writing the same store *)

IngestCities == {"Delhi", OtherCity, ""}
IngestSamples == {NormalSample, Sample("ok", 100, 450, 30, 50), CriticalSample}

\* raw tables of one row, one of two rows for the same city, and one without
\* the temperature and humidity columns
IngestRows ==
    {<<RawRow(c, s, 0)>> : c \in IngestCities, s \in IngestSamples}
      \cup {<<RawRow("Delhi", CriticalSample, 0), RawRow("Delhi", NormalSample, 1)>>}
      \cup {<<RawRow("Delhi", PartialSample, 0)>>}

InitIngest ==
    /\ InitStore
    /\ horizon = MaxTicks
    /\ wcalls = 1
    /\ rleft = 0
    /\ \E last \in {RaiseSample, NormalSample} :
         feed = [c \in Cities |-> IF c = "Delhi" THEN <<CriticalSample, NormalSample>>
                                  ELSE IF c = "Bangalore" THEN <<last, NormalSample>>
                                  ELSE <<NormalSample>>]

NextIngest == ProcessorStep \/ WriterStep(IngestRows)

SpecIngest == InitIngest /\ [][NextIngest]_vars

\* C5: after update_reading(city, R1) and then update_reading(city, R2),
\* get_city_reading(city) returns a record with exactly the keys of R2 and the
\* timestamp key, each field with R2's value and the timestamp of the store's
\* clock at the write: nothing of R1 is left.
C5_LastWriteWins ==
    \A c \in AllCities :
        writeLog[c].n >= 1 =>
            LET w == writeLog[c].last[1]
                r == GetCityReading(c)
            IN  /\ r # None
                /\ DOMAIN r = (DOMAIN w.data) \cup {"timestamp"}
                /\ r.timestamp = w.now
                /\ \A f \in (DOMAIN w.data) \ {"timestamp"} : r[f] = w.data[f]

\* a city written twice, the first record with a key the second does not have
\* and with another aqi
C5_Witness ==
    \E c \in AllCities :
        /\ writeLog[c].n >= 2
        /\ LET r1 == writeLog[c].prev[1].data
               r2 == writeLog[c].last[1].data
           IN  /\ "air_quality_class" \in (DOMAIN r1) \ (DOMAIN r2)
               /\ r1.aqi # r2.aqi
               /\ r1.timestamp # writeLog[c].last[1].now

\* C8: every record that ever entered the alerts buffer has the severity
\* warning or critical, whether the processor's loop or process_pathway_results
\* put it there.
C8_AlertsAreNeverNormal ==
    \A i \in 1..Len(alertLog) :
        /\ "severity" \in DOMAIN alertLog[i]
        /\ alertLog[i].severity \in {"warning", "critical"}

-----------------------------------------------------------------------------
(* Callers of the read methods beside the running processor *)

\* a critical city, and a city whose first reading fails
ApiFeed ==
    [c \in Cities |-> IF c = "Delhi" THEN <<CriticalSample, WarningSample>>
                      ELSE IF c = "Bangalore" THEN <<RaiseSample, NormalSample>>
                      ELSE <<NormalSample>>]

InitApi ==
    /\ InitStore
    /\ horizon = MaxTicks
    /\ wcalls = 0
    /\ rleft = MaxReads
    /\ feed \in {ApiFeed, SingleCityFeed("Mumbai")}

NextApi == ProcessorStep \/ ReaderStep

SpecApi == InitApi /\ [][NextApi]_vars

\* C6: the map get_all_readings returns is the caller's own: when the caller
\* adds, replaces or removes an entry of it, get_all_readings, get_city_reading
\* and get_dashboard_summary return after the change what they returned before.
C6_ReturnedMapIsACopy ==
    [][R_Changes => (StoreReads' = StoreReads /\ UNCHANGED storeVars)]_vars

\* the caller has changed the map it got from a store that holds readings
C6_Witness ==
    /\ held.has
    /\ held.touched
    /\ latest_readings # EmptyDict
    /\ Entries(held) # latest_readings
    /\ \E c \in DOMAIN latest_readings : c \notin DOMAIN Entries(held)


-----------------------------------------------------------------------------
(* Requests served while the processor runs *)

MaxQueries == 2

\* a city no thread writes
UnknownCity == "Kolkata"
QueryCities == {"Delhi", OtherCity, UnknownCity}
QueryLimits == {0, 1, 2}

InitQuery ==
    /\ InitStore
    /\ horizon = MaxTicks
    /\ wcalls = 0
    /\ rleft = MaxQueries
    /\ \E last \in {RaiseSample, NormalSample} :
         feed = [c \in Cities |-> IF c = "Delhi" THEN <<CriticalSample, WarningSample>>
                                  ELSE IF c = "Mumbai" THEN <<WarningSample>>
                                  ELSE IF c = "Bangalore" THEN <<last, NormalSample>>
                                  ELSE <<NormalSample>>]

NextQuery ==
    \/ ProcessorStep
    \/ StoreReadCalls(StoreReadOps, QueryCities, QueryLimits)
    \/ ApiRequests(ApiOps, QueryCities, QueryLimits)
    \/ HealthRequests(QueryCities)
    \/ Q_Deliver

SpecQuery == InitQuery /\ [][NextQuery]_vars

\* the records the processor can have ingested for a city: one per sample of its feed
IngestedRecords(city) ==
    {Classified(GenerateReading(city, feed[city][i], 0)) :
        i \in {j \in 1..Len(feed[city]) : feed[city][j].kind = "ok"}}

\* C12: the health_score, risk_score, aqi, co2 and severity that get_city_health
\* returns for a city are those of one and the same ingested record of the city.
C12_HealthIsOneSnapshot ==
    (resp.op = "city_health" /\ resp.status = 200 /\ resp.city \in Cities) =>
        \E rec \in IngestedRecords(resp.city) :
            /\ resp.body.health_score = rec.health_score
            /\ resp.body.risk_score = rec.risk_score
            /\ resp.body.aqi = rec.aqi
            /\ resp.body.co2 = rec.co2
            /\ resp.body.severity = rec.severity

\* the severity an alert query selects
FilterOf(op) ==
    IF op \in {"get_critical_alerts", "alerts_critical"} THEN "critical" ELSE "warning"

\* C14: an alert query with the filter critical or warning and a limit >= 0
\* returns at most `limit` alerts, and they are the last `limit` alerts of the
\* buffer with that severity, in arrival order (the filter any is C15's).
C14_AlertQueryLimit ==
    [][(resp'.op \in {"get_critical_alerts", "get_warnings",
                     "alerts_critical", "alerts_warnings"} /\ resp = NoResponse) =>
          /\ Len(resp'.body) <= resp'.limit
          /\ resp'.body = LastN(WithSeverity(alerts_buffer, FilterOf(resp'.op)),
                                resp'.limit)]_vars

\* C15: get_alerts (the filter any) with a limit >= 1 returns the last `limit`
\* alerts of the alerts buffer whatever their severity, the warnings among
\* them at their place.
C15_AnyFilterReturnsAll ==
    [][(resp'.op = "alerts" /\ resp = NoResponse /\ resp'.limit >= 1) =>
          resp'.body = LastN(alerts_buffer, resp'.limit)]_vars

\* C16: the dashboard the query interface serves is one snapshot of the
\* store: its critical and warning counts are those of the store's alerts
\* buffer and its recent_alerts are the last (at most 10) alerts of that buffer,
\* in the state in which total_cities and average_aqi were read.
C16_DashboardIsStoreSnapshot ==
    [][(resp'.op = "dashboard" /\ resp = NoResponse) =>
          /\ resp'.body.total_cities = Cardinality(DOMAIN latest_readings)
          /\ resp'.body.average_aqi = GetDashboardSummary.average_aqi
          /\ resp'.body.critical_alerts = Len(WithSeverity(alerts_buffer, "critical"))
          /\ resp'.body.warnings = Len(WithSeverity(alerts_buffer, "warning"))
          /\ resp'.body.recent_alerts = LastN(alerts_buffer, 10)]_vars

\* C18: for a city with no reading in the store, the point queries (one
\* city's reading, its health metrics, its insight) answer not found (404, no
\* record), and get_city_reading of the store returns None.
C18_UnknownCityIsNotFound ==
    resp.city \notin DOMAIN latest_readings =>
        /\ resp.op \in {"city_reading", "city_health", "insights"} =>
              (resp.status = 404 /\ resp.body = None)
        /\ resp.op = "get_city_reading" => resp.body = None

\* the health metrics of a city never ingested were asked for while the store
\* held other cities, and the answer is in flight
C18_Witness ==
    /\ resp.op = "city_health"
    /\ resp.city = UnknownCity
    /\ resp.status = 404
    /\ "Delhi" \in DOMAIN latest_readings

\* C13: a call of any read method of the store, with any argument (a city
\* never ingested included), leaves latest_readings, alerts_buffer,
\* health_scores, risk_scores and anomaly_history, its set of keys included,
\* unchanged; the store changes only in a step of update_reading, add_alert
\* or add_anomaly.
C13_ReadsChangeNothing ==
    [][/\ StoreReadCalls(StoreReadOps, QueryCities, QueryLimits) =>
             (UNCHANGED storeVars /\ DOMAIN anomaly_history' = DOMAIN anomaly_history)
       /\ storeVars' # storeVars => \E t \in Threads : StoreStep(t)]_vars

\* the anomaly history of a city never ingested has been read, and is empty,
\* while the store holds the history of another city
C13_Witness ==
    /\ resp.op = "get_city_anomaly_history"
    /\ resp.city = UnknownCity
    /\ resp.body = <<>>
    /\ anomaly_history # EmptyDict
    /\ UnknownCity \notin DOMAIN anomaly_history


-----------------------------------------------------------------------------
(* The summaries of a store that process_pathway_results fills *)

\* raw tables of one row: one without the temperature column, from which the
\* pipeline hands on unscored rows, and two the pipeline scores
SummaryRows ==
    {<<RawRow(OtherCity, PartialSample, 0)>>,
     <<RawRow("Delhi", CriticalSample, 0)>>,
     <<RawRow("Mumbai", NormalSample, 0)>>}

InitSummary ==
    /\ InitStore
    /\ horizon = MaxTicks
    /\ wcalls = 2
    /\ rleft = MaxQueries
    /\ feed = SingleCityFeed("Delhi")

NextSummary ==
    \/ WriterStep(SummaryRows)
    \/ StoreReadCalls({"get_dashboard_summary"}, {}, {})
    \/ ApiRequests({"dashboard"}, {}, {})
    \/ Q_Deliver

SpecSummary == InitSummary /\ [][NextSummary]_vars

-----------------------------------------------------------------------------
(* One summary read at any moment while the processor fills the alerts buffer *)

InitAtomic ==
    /\ InitStore
    /\ horizon = MidTicks
    /\ wcalls = 0
    /\ rleft = 1
    /\ feed = MixedFeed

NextAtomic ==
    \/ ProcessorStep
    \/ StoreReadCalls({"get_dashboard_summary"}, {}, {})
    \/ Q_Deliver

SpecAtomic == InitAtomic /\ [][NextAtomic]_vars

\* every stored reading's scores are the ones in the score maps, and the alerts
\* buffer is within its capacity
NothingHalfDone ==
    /\ \A c \in DOMAIN latest_readings :
         /\ "health_score" \in DOMAIN latest_readings[c] =>
               GetHealthScore(c) = latest_readings[c].health_score
         /\ "risk_score" \in DOMAIN latest_readings[c] =>
               GetRiskScore(c) = latest_readings[c].risk_score
    /\ Len(alerts_buffer) <= AlertsCapacity

\* C11: a read method of the store never runs on a half-done update: when it
\* reads, the scores stored for each city are those of the city's stored
\* reading, not of the previous one, and the alerts buffer is not in the state
\* between add_alert's append and eviction (101 entries); the summary it
\* returns counts at most 100 alerts.
C11_ReadsSeeWholeUpdates ==
    [][StoreReadCalls({"get_dashboard_summary"}, {}, {}) =>
          /\ NothingHalfDone
          /\ resp'.body.critical_alerts + resp'.body.warnings <= AlertsCapacity]_vars

\* a summary was read from a full buffer, between the processor's
\* update_reading and add_alert for a city whose scores had changed
C11_Witness ==
    /\ resp.op = "get_dashboard_summary"
    /\ resp.body.critical_alerts + resp.body.warnings = AlertsCapacity
    /\ Len(alertLog) > AlertsCapacity
    /\ pc[Proc] = "check"
    /\ writeLog[City].n >= 2
    /\ writeLog[City].prev[1].data.health_score # writeLog[City].last[1].data.health_score


-----------------------------------------------------------------------------
(* The scores *)

\* C19: for every classified record stored, by the processor's loop or from
\* the pipeline's health metric, health_score + risk_score is 100 to within
\* one hundredth (the rounding of the 2-decimal risk score), and both scores
\* lie in [0, 100].
C19_HealthPlusRiskIs100 ==
    \A c \in DOMAIN latest_readings :
        LET r == latest_readings[c] IN
        {"health_score", "risk_score"} \subseteq DOMAIN r =>
            /\ r.health_score + r.risk_score >= 10000 - 1
            /\ r.health_score + r.risk_score <= 10000 + 1
            /\ r.health_score >= 0 /\ r.health_score <= 10000
            /\ r.risk_score >= 0 /\ r.risk_score <= 10000

\* the risk score as the formula with the scaled temperature penalty gives it,
\* in hundredths
ClaimedRiskScore(aqi, co2, temperature) ==
    LET temp_penalty == IF temperature > 45 THEN 100
                        ELSE IF temperature > 35 THEN Min(100, (temperature - 35) * 5)
                        ELSE IF temperature < 10 THEN Min(100, (10 - temperature) * 3)
                        ELSE 0
    IN  Clamp(Clamp(8 * aqi, 0, 4000) + Clamp(10 * (co2 - 400), 0, 4000)
              + 20 * temp_penalty, 0, 10000)

\* C20: the risk score the processor stores for a reading is
\* 0.4*clamp(aqi/5, 0, 100) + 0.4*clamp((co2-400)/4, 0, 100) + 0.2*temp_penalty,
\* clamped to [0, 100], with temp_penalty 100 above 45 degrees, (t-35)*5 capped
\* at 100 above 35, (10-t)*3 capped at 100 below 10, and 0 otherwise.
C20_RiskScoreFormula ==
    \A c \in Cities :
        writeLog[c].n >= 1 =>
            LET r == writeLog[c].last[1].data IN
            r.risk_score = ClaimedRiskScore(r.aqi, r.co2, r.temperature)

-----------------------------------------------------------------------------
(* One reading through the processor's loop body *)

\* the elements of a list of tags
TagSet(tags) == {tags[i] : i \in 1..Len(tags)}

\* the processor has finished its loop body for the reading with these values
Processed(city, aqi, co2, temperature, humidity) ==
    /\ pc[Proc] = "next"
    /\ City = city
    /\ {"aqi", "co2", "temperature", "humidity"} \subseteq DOMAIN reading
    /\ reading.aqi = aqi
    /\ reading.co2 = co2
    /\ reading.temperature = temperature
    /\ reading.humidity = humidity

\* the alerts recorded for the reading the processor is working on
AlertsOfReading ==
    {i \in 1..Len(alertLog) :
        alertLog[i].city = reading.city /\ alertLog[i].timestamp = reading.timestamp}

\* C21: processing the reading {Delhi, aqi 250, co2 620, temperature 30,
\* humidity 50} yields severity critical, anomaly tags containing both high_aqi
\* and high_co2, risk_score 42.0 and health_score 58.0, stores them for Delhi
\* and records exactly one alert for Delhi.
C21_DelhiCriticalReading ==
    Processed("Delhi", 250, 620, 30, 50) =>
        /\ reading.severity = "critical"
        /\ {"high_aqi", "high_co2"} \subseteq TagSet(reading.anomaly_type)
        /\ reading.risk_score = 4200
        /\ reading.health_score = 5800
        /\ latest_readings["Delhi"].severity = "critical"
        /\ latest_readings["Delhi"].anomaly_type = reading.anomaly_type
        /\ risk_scores["Delhi"] = 4200
        /\ health_scores["Delhi"] = 5800
        /\ Cardinality(AlertsOfReading) = 1
        /\ \E i \in 1..Len(alerts_buffer) :
              alerts_buffer[i].city = "Delhi" /\ alerts_buffer[i].severity = "critical"

C21_Witness ==
    /\ Processed("Delhi", 250, 620, 30, 50)
    /\ Cardinality(AlertsOfReading) = 1
    /\ HistoryOf(anomaly_history, "Delhi") # <<>>

\* the tags the specification's four conditions give
ClaimedTags(r) ==
    LET matching == (IF r.aqi > 200 THEN {"high_aqi"} ELSE {})
                    \cup (IF r.co2 > 600 THEN {"high_co2"} ELSE {})
                    \cup (IF r.temperature > 45 THEN {"extreme_heat"} ELSE {})
                    \cup (IF r.humidity > 80 THEN {"high_humidity"} ELSE {})
    IN  IF matching = {} THEN {"normal"} ELSE matching

\* C22: the anomaly tags attached to a reading are exactly the set of all
\* matching conditions (high_aqi iff aqi > 200, high_co2 iff co2 > 600,
\* extreme_heat iff temperature > 45, high_humidity iff humidity > 80), and the
\* tag is normal iff none of the four matches.
C22_TagsAreAllMatchingConditions ==
    \A c \in DOMAIN latest_readings :
        TagSet(latest_readings[c].anomaly_type) = ClaimedTags(latest_readings[c])

\* the number of tags carried by the alerts recorded for a city
RECURSIVE TagsAlerted(_, _)
TagsAlerted(log, city) ==
    IF log = <<>> THEN 0
    ELSE (IF Head(log).city = city THEN Cardinality(TagSet(Head(log).anomaly_type)) ELSE 0)
         + TagsAlerted(Tail(log), city)

\* C23: in each tick step for a city update_reading is called; if the
\* reading's severity is not normal, exactly one alert is appended and one
\* anomaly-history entry is recorded for each tag of the reading; if it is
\* normal, the step adds no alert and no anomaly-history entry.
C23_OneHistoryEntryPerTag ==
    pc[Proc] = "next" =>
        /\ writeLog[City].n >= 1
        /\ writeLog[City].last[1].data = reading
        /\ Cardinality(AlertsOfReading) = (IF reading.severity # "normal" THEN 1 ELSE 0)
        /\ Len(HistoryOf(anomalyLog, City)) = TagsAlerted(alertLog, City)

-----------------------------------------------------------------------------
(* The derived score maps *)

\* a score map holds for the city exactly the field of the stored record
Mirrors(scores, c, field) ==
    IF field \in DOMAIN latest_readings[c]
    THEN c \in DOMAIN scores /\ scores[c] = latest_readings[c][field]
    ELSE c \notin DOMAIN scores

\* C24: whenever no update_reading is in progress, for every city present in
\* latest_readings, health_scores[city] and risk_scores[city] are the
\* health_score and risk_score of the record stored in latest_readings[city]:
\* the derived maps are never stale, also after an update_reading whose record
\* carries no score fields.
C24_ScoreMapsMirrorLatest ==
    lock = Free =>
        \A c \in DOMAIN latest_readings :
            /\ Mirrors(health_scores, c, "health_score")
            /\ Mirrors(risk_scores, c, "risk_score")

-----------------------------------------------------------------------------
(* The health metrics of a city at the ends of the score range *)

\* readings with risk_score 0 and with risk_score 100
CleanSample == Sample("ok", 0, 400, 25, 50)
WorstSample == Sample("ok", 500, 800, 46, 50)

InitHealth ==
    /\ InitStore
    /\ horizon = MaxTicks
    /\ wcalls = 0
    /\ rleft = MaxQueries
    /\ \E first \in {CleanSample, WorstSample, CriticalSample},
          last \in {RaiseSample, NormalSample} :
         feed = [c \in Cities |-> IF c = "Delhi" THEN <<first, WorstSample>>
                                  ELSE IF c = "Mumbai" THEN <<WarningSample>>
                                  ELSE IF c = "Bangalore" THEN <<last, NormalSample>>
                                  ELSE <<NormalSample>>]

NextHealth ==
    \/ ProcessorStep
    \/ HealthRequests({"Delhi", UnknownCity})
    \/ Q_Deliver

SpecHealth == InitHealth /\ [][NextHealth]_vars

\* C25: for a city with a recorded reading, the health metrics returned are
\* exactly the health_score and the risk_score the store holds for the city,
\* for every stored value in 0..100, risk_score 0 and health_score 0 included.
C25_HealthMetricsAreTheStoredScores ==
    [][(H_Risk /\ query.health_score # NoScore /\ query.city \in DOMAIN risk_scores) =>
          /\ resp'.body.health_score = query.health_score
          /\ resp'.body.risk_score = risk_scores[query.city]]_vars

-----------------------------------------------------------------------------
(* The record update_reading stores *)

\* C26: update_reading(city, data) stores a record whose timestamp is the
\* store's clock value at the time of the write, whatever timestamp the
\* producer put in data, and whose every other field equals the field of data.
C26_StoreStampsTheRecord ==
    [][\A t \in Threads :
         UpdateLatest(t) =>
           LET data == call[t].data
               stored == latest_readings'[call[t].city]
           IN  /\ stored.timestamp = clock
               /\ DOMAIN stored = DOMAIN data \cup {"timestamp"}
               /\ \A f \in DOMAIN data \ {"timestamp"} : stored[f] = data[f]]_vars

\* a record is stored whose producer had put another timestamp in it
C26_Witness ==
    \E c \in DOMAIN latest_readings :
        /\ writeLog[c].n >= 1
        /\ "timestamp" \in DOMAIN writeLog[c].last[1].data
        /\ writeLog[c].last[1].data.timestamp # writeLog[c].last[1].now
        /\ latest_readings[c].timestamp = writeLog[c].last[1].now
        /\ latest_readings[c].aqi = writeLog[c].last[1].data.aqi

\* C27: for each single city the update_reading calls are applied in ingestion
\* order: the timestamps seen in latest_readings[city] are strictly increasing,
\* and the record stored after the k-th call is the k-th reading ingested (the
\* one the processor has just generated), never an earlier one.
C27_UpdatesInIngestionOrder ==
    [][\A t \in Threads :
         UpdateLatest(t) =>
           LET c == call[t].city IN
           /\ writeLog'[c].n = writeLog[c].n + 1
           /\ latest_readings'[c].aqi = reading.aqi
           /\ latest_readings'[c].co2 = reading.co2
           /\ c \in DOMAIN latest_readings =>
                 /\ latest_readings'[c].timestamp > latest_readings[c].timestamp
                 /\ reading.timestamp > writeLog[c].last[1].data.timestamp]_vars

\* a city's record has been replaced by the reading of the second tick
C27_Witness ==
    \E c \in DOMAIN latest_readings :
        /\ writeLog[c].n = 2
        /\ latest_readings[c].timestamp = writeLog[c].last[1].now
        /\ writeLog[c].last[1].now > writeLog[c].prev[1].now
        /\ writeLog[c].last[1].data.aqi # writeLog[c].prev[1].data.aqi

-----------------------------------------------------------------------------
(* The scope of the lock in the processor's loop *)

\* the processor is in time.sleep or at the call of generator.generate_reading
SleepingOrFetching == pc[Proc] \in {"sleep", "except", "fetch"}

\* C28: the stream processor never holds the store's lock while it sleeps or
\* while it waits for the reading source: in every such state the lock is
\* free or held by another thread.
C28_NoLockWhileSuspended ==
    SleepingOrFetching => lock # Proc

\* the processor sleeps after its writes, and a request is reading the store
C28_Witness ==
    /\ pc[Proc] = "sleep"
    /\ lock = Free
    /\ "Bangalore" \in DOMAIN latest_readings
    /\ pc[Reader] = "h_risk"
    /\ query.health_score # NoScore

-----------------------------------------------------------------------------
(* The insight query and its enrichment *)

\* the enrichment is not configured, raises, or replies without the expected lines
FailedEnrichments == {NotConfigured, GeminiRaises, UnexpectedReply}

\* C30: for a city that has a recorded reading the insight query never fails
\* because of enrichment: whether the enrichment service is not configured,
\* raises, or replies without the EXPLANATION/RECOMMENDATION lines, the query
\* returns a non-error result with an explanation and a recommendation.
C30_InsightsSurviveEnrichment ==
    [][\A c \in DOMAIN latest_readings, e \in FailedEnrichments :
         Q_ApiWith("insights", c, 0, e) =>
           /\ resp'.status = 200
           /\ resp'.body.explanation # ""
           /\ resp'.body.recommendation # ""
           /\ resp'.body.alert.aqi = latest_readings[c].aqi
           /\ [explanation |-> resp'.body.explanation,
               recommendation |-> resp'.body.recommendation]
                 = IF e = UnexpectedReply THEN DefaultTexts
                   ELSE FallbackTexts(latest_readings[c])]_vars

\* an insight for Delhi's critical reading, answered with the fallback texts
C30_Witness ==
    /\ resp.op = "insights"
    /\ resp.city = "Delhi"
    /\ resp.status = 200
    /\ resp.body.explanation = "Poor air quality (AQI 250). CO2 levels are elevated."
    /\ resp.body.recommendation = "Limit outdoor activities and wear protective masks."

-----------------------------------------------------------------------------
(* Stopping the processor *)

\* a stop is requested from outside while the loop runs.  The loop is
\* `while True:` in a daemon thread (api.py lines 86-91): no flag, event or
\* handle exists through which the request could reach it, so the request
\* changes nothing the processor reads
RequestStop ==
    /\ stopAt = 0
    /\ stopAt' = tick
    /\ UNCHANGED <<storeVars, lock, clock, pc, call, procVars, batchVars, legacyVars, feed, horizon,
                   sleeps, readerVars, histVars>>

InitStop ==
    /\ InitStore
    /\ horizon = MaxTicks
    /\ wcalls = 0
    /\ rleft = 0
    /\ \E last \in {RaiseSample, NormalSample} :
         feed = [c \in Cities |-> IF c = "Delhi" THEN <<CriticalSample, NormalSample>>
                                  ELSE IF c = "Bangalore" THEN <<last, NormalSample>>
                                  ELSE <<NormalSample>>]

NextStop == ProcessorStep \/ RequestStop

SpecStop == InitStop /\ [][NextStop]_vars

\* C29: stopping the stream processor is a cooperative signal checked once per
\* tick: once the stop signal is set the processor finishes at most the
\* current tick and performs no store write afterwards.
C29_NoWriteAfterStop ==
    [][(stopAt # 0 /\ tick > stopAt) => UNCHANGED storeVars]_vars

-----------------------------------------------------------------------------
(* The insight texts when the enrichment is unavailable *)

\* readings on both sides of the bounds of the AQI bands
BandAqi == {150, 200, 201, 300, 301, 500}
BandSamples == {Sample("ok", a, 450, 30, 50) : a \in BandAqi}

InitInsight ==
    /\ InitStore
    /\ horizon = MaxTicks
    /\ wcalls = 0
    /\ rleft = MaxQueries
    /\ \E first \in BandSamples, last \in {RaiseSample, NormalSample} :
         feed = [c \in Cities |-> IF c = "Delhi" THEN <<first, CriticalSample>>
                                  ELSE IF c = "Bangalore" THEN <<last, NormalSample>>
                                  ELSE <<NormalSample>>]

NextInsight ==
    \/ ProcessorStep
    \/ ApiRequests({"insights"}, {"Delhi", UnknownCity}, {})
    \/ Q_Deliver

SpecInsight == InitInsight /\ [][NextInsight]_vars

\* the band of an insight text, read off its wording
BandOfText(texts) ==
    IF StartsWith(texts.explanation, "CRITICAL: AQI ")
       /\ texts.recommendation = "Stay indoors, close windows, and use air purifiers."
    THEN "hazard"
    ELSE IF StartsWith(texts.explanation, "Poor air quality (AQI ")
            /\ texts.recommendation = "Limit outdoor activities and wear protective masks."
    THEN "poor"
    ELSE IF StartsWith(texts.explanation, "Moderate pollution detected (AQI ")
            /\ texts.recommendation = "Monitor air quality conditions."
    THEN "moderate"
    ELSE "other"

\* the band the specification gives for an AQI
ClaimedBand(aqi) ==
    IF aqi > 300 THEN "hazard" ELSE IF 200 < aqi /\ aqi <= 300 THEN "poor" ELSE "moderate"

\* the texts of a response
TextsOf(response) ==
    [explanation |-> response.body.explanation,
     recommendation |-> response.body.recommendation]

\* C31: when the enrichment is unavailable or fails, the insight text is a
\* function of the stored reading's AQI band alone: the hazard template if
\* aqi > 300, the poor-quality template if 200 < aqi <= 300, the moderate
\* template otherwise; so two requests for the same stored reading, whatever
\* the failure, get the same explanation and recommendation.
C31_FallbackTextByAqiBand ==
    [][\A c \in DOMAIN latest_readings, e \in {NotConfigured, GeminiRaises} :
         Q_ApiWith("insights", c, 0, e) =>
           /\ BandOfText(TextsOf(resp')) = ClaimedBand(latest_readings[c].aqi)
           /\ \A other \in {NotConfigured, GeminiRaises} :
                 TextsOf(ApiGetInsights(c, clock + 1, other)) = TextsOf(resp')]_vars

\* an insight for a reading with aqi 300, answered with the poor-quality template
C31_Witness ==
    /\ resp.op = "insights"
    /\ resp.status = 200
    /\ "Delhi" \in DOMAIN latest_readings
    /\ latest_readings["Delhi"].aqi = 300
    /\ resp.body.explanation = "Poor air quality (AQI 300). CO2 levels are elevated."

-----------------------------------------------------------------------------
(* The severity of two readings, one each side of the thresholds *)

\* Delhi and Mumbai yield any two readings around the thresholds
InitClassify ==
    /\ InitStore
    /\ horizon = MaxTicks
    /\ wcalls = 0
    /\ rleft = 0
    /\ \E s1 \in BoundarySamples, s2 \in BoundarySamples,
          last \in {RaiseSample, NormalSample} :
         feed = [c \in Cities |-> IF c = "Delhi" THEN <<s1>>
                                  ELSE IF c = "Mumbai" THEN <<s2>>
                                  ELSE IF c = "Bangalore" THEN <<last, NormalSample>>
                                  ELSE <<NormalSample>>]

NextClassify == ProcessorStep

SpecClassify == InitClassify /\ [][NextClassify]_vars

\* the order normal < warning < critical
SeverityRank(sev) ==
    IF sev = "normal" THEN 0 ELSE IF sev = "warning" THEN 1 ELSE 2

\* the pipeline's severity of a reading
PipelineSeverity(r) ==
    GetSeverity(ClassifyAqiSeverity(r.aqi), ClassifyCo2Severity(r.co2))

\* C32: severity is monotonic in the pollution level: for any two readings
\* with aqi1 <= aqi2 and co2_1 <= co2_2 the severity of the first is not
\* higher than the severity of the second (normal < warning < critical), for
\* the processor's classification and for the pipeline's.
C32_SeverityIsMonotonic ==
    \A c1 \in DOMAIN latest_readings, c2 \in DOMAIN latest_readings :
        LET r1 == latest_readings[c1]
            r2 == latest_readings[c2]
        IN  (r1.aqi <= r2.aqi /\ r1.co2 <= r2.co2) =>
              /\ SeverityRank(r1.severity) <= SeverityRank(r2.severity)
              /\ SeverityRank(PipelineSeverity(r1)) <= SeverityRank(PipelineSeverity(r2))

\* a warning reading and a critical one with more of both pollutants are stored
C32_Witness ==
    /\ {"Delhi", "Mumbai"} \subseteq DOMAIN latest_readings
    /\ latest_readings["Delhi"].aqi < latest_readings["Mumbai"].aqi
    /\ latest_readings["Delhi"].co2 < latest_readings["Mumbai"].co2
    /\ latest_readings["Delhi"].severity = "warning"
    /\ latest_readings["Mumbai"].severity = "critical"

\* C33: the severity the stream processor assigns to a reading is the more
\* severe of classify_aqi_severity(aqi) and classify_co2_severity(co2): the
\* processor's _classify_severity and the pipeline's get_severity agree on
\* every reading.
C33_ProcessorAgreesWithPipeline ==
    \A c \in DOMAIN latest_readings :
        latest_readings[c].severity = PipelineSeverity(latest_readings[c])

-----------------------------------------------------------------------------
(* The sleeps between the ticks *)

\* the processor is at one of its two time.sleep calls
AtSleep == pc[Proc] \in {"sleep", "except"}

\* C34: the processor sleeps exactly one tick interval between two consecutive
\* ticks, on the success path and on the error path: a tick, failed or not,
\* is followed by one sleep and then a new tick, never by an immediate retry
\* and never by two sleeps.
C34_OneSleepBetweenTicks ==
    /\ [](sleeps = tick - 1)
    /\ [][/\ tick' # tick =>
               (AtSleep /\ tick' = tick + 1 /\ sleeps' = sleeps + 1)
          /\ (AtSleep /\ pc'[Proc] # pc[Proc]) =>
               (tick' = tick + 1 /\ sleeps' = sleeps + 1
                  /\ pc'[Proc] = "fetch" /\ idx' = 1)
          /\ sleeps' # sleeps => tick' # tick]_vars

\* the second tick has begun after a first tick that failed
C34_Witness ==
    /\ tick = 2
    /\ sleeps = 1
    /\ pc[Proc] = "classify"
    /\ \E c \in Cities : FeedAt(c, 1).kind = "raise"

-----------------------------------------------------------------------------
(* Every tracked city, once per tick, in order *)

\* the reading source never fails
SourceNeverFails ==
    \A c \in Cities : \A i \in 1..Len(feed[c]) : feed[c][i].kind = "ok"

\* a tick has been completed without an error
TickCompleted == pc[Proc] = "sleep"

\* in the tick just completed every city was updated once, in the order of the list
UpdatedOnceInOrder ==
    /\ \A c \in Cities :
          /\ writeLog[c].n = tick
          /\ writeLog[c].last[1].now >= tickStart
          /\ writeLog[c].prev # <<>> => writeLog[c].prev[1].now < tickStart
          /\ latest_readings[c].timestamp = writeLog[c].last[1].now
    /\ \A i \in 1..Len(TrackedCities), j \in 1..Len(TrackedCities) :
          i < j => writeLog[TrackedCities[i]].last[1].now
                     < writeLog[TrackedCities[j]].last[1].now

\* C35: under fair scheduling of the processor thread and a reading source
\* that does not fail, every tracked city (Delhi, Mumbai, Chennai, Bangalore)
\* eventually has an entry in latest_readings, and after every completed tick
\* each tracked city has been updated exactly once in that tick, in the fixed
\* order of the city list.
C35_EveryCityEveryTick ==
    SourceNeverFails =>
        /\ <>(Cities \subseteq DOMAIN latest_readings)
        /\ [](TickCompleted => UpdatedOnceInOrder)

\* the second tick is completed with a source that never failed
C35_Witness ==
    /\ SourceNeverFails
    /\ TickCompleted
    /\ tick = 2
    /\ Cities \subseteq DOMAIN latest_readings
    /\ writeLog["Bangalore"].n = 2

-----------------------------------------------------------------------------
(* The health check, api.py lines 105-114: it reads the store's map twice, *)
(* without the lock                                                         *)

\* line 108: pathway_active = len(pathway_data_store.latest_readings) > 0
HC_Active ==
    /\ pc[Reader] = "idle"
    /\ rleft > 0
    /\ resp = NoResponse
    /\ rleft' = rleft - 1
    /\ query' = [op |-> "health", city |-> "", reading |-> None, health_score |-> NoScore,
                 pathway_active |-> DOMAIN latest_readings # {}]
    /\ Goto(Reader, "hc_cities")
    /\ UNCHANGED <<storeVars, lock, clock, call, procVars, batchVars, legacyVars, feed, horizon, stopAt, sleeps,
                   held, resp, histVars>>

\* lines 109-114: the response, with list(latest_readings.keys()) as a set
HC_Cities ==
    /\ pc[Reader] = "hc_cities"
    /\ resp' = Response("health", "", 0, 200,
                   [status |-> "healthy",
                    pathway_active |-> query.pathway_active,
                    cities |-> DOMAIN latest_readings,
                    timestamp |-> clock])
    /\ query' = NoQuery
    /\ Goto(Reader, "idle")
    /\ UNCHANGED <<storeVars, lock, clock, call, procVars, batchVars, legacyVars, feed, horizon, stopAt, sleeps,
                   held, rleft, histVars>>

HealthCheck == HC_Active \/ HC_Cities

InitHealthCheck ==
    /\ InitStore
    /\ horizon = MaxTicks
    /\ wcalls = 0
    /\ rleft = MaxQueries
    /\ \E last \in {RaiseSample, NormalSample} :
         feed = [c \in Cities |-> IF c = "Delhi" THEN <<CriticalSample, NormalSample>>
                                  ELSE IF c = "Bangalore" THEN <<last, NormalSample>>
                                  ELSE <<NormalSample>>]

NextHealthCheck ==
    \/ ProcessorStep
    \/ HealthCheck
    \/ Q_Deliver

SpecHealthCheck == InitHealthCheck /\ [][NextHealthCheck]_vars

\* C36: the health-check response is consistent under concurrent ingestion:
\* for every interleaving with the stream processor's writes it succeeds, and
\* pathway_active is true if and only if the returned cities list is non-empty.
C36_HealthCheckIsConsistent ==
    resp.op = "health" =>
        /\ resp.status = 200
        /\ resp.body.pathway_active <=> (resp.body.cities # {})

-----------------------------------------------------------------------------
(* References to the store's records.  A record of latest_readings is a new  *)
(* dict made by update_reading, so the city and the timestamp of its making  *)
(* name the object; the caller's alert is one dict of its own.               *)

\* the caller holds the dict object that was latest_readings[city] at the call
RecordRef(city, via) ==
    [has |-> FALSE, alias |-> FALSE, val |-> EmptyDict, touched |-> FALSE,
     via |-> via, city |-> city, made |-> latest_readings[city].timestamp]

\* get_city_reading, lines 60-63: it returns self.latest_readings.get(city), the
\* store's own dict
R_GetCityReading(city) ==
    /\ rleft > 0
    /\ lock = Free
    /\ city \in DOMAIN latest_readings
    /\ rleft' = rleft - 1
    /\ held' = RecordRef(city, "get_city_reading")
    /\ UNCHANGED <<query, resp>>
    /\ UNCHANGED <<storeVars, lock, clock, pc, call, procVars, batchVars, legacyVars, feed, horizon, stopAt, sleeps,
                   histVars>>

\* get_all_readings()[city], lines 55-58: the copy of the map holds the store's
\* own dicts
R_GetRecordOfAll(city) ==
    /\ rleft > 0
    /\ lock = Free
    /\ city \in DOMAIN latest_readings
    /\ rleft' = rleft - 1
    /\ held' = RecordRef(city, "get_all_readings")
    /\ UNCHANGED <<query, resp>>
    /\ UNCHANGED <<storeVars, lock, clock, pc, call, procVars, batchVars, legacyVars, feed, horizon, stopAt, sleeps,
                   histVars>>

\* record["aqi"] = 999 on the dict the caller holds: it is the store's record
\* as long as update_reading has not replaced it
R_MutateRecord ==
    /\ rleft > 0
    /\ "made" \in DOMAIN held
    /\ ~ held.touched
    /\ rleft' = rleft - 1
    /\ held' = [held EXCEPT !.touched = TRUE]
    /\ IF latest_readings[held.city].timestamp = held.made
       THEN latest_readings' = [latest_readings EXCEPT ![held.city].aqi = 999]
       ELSE UNCHANGED latest_readings
    /\ UNCHANGED <<alerts_buffer, health_scores, risk_scores, anomaly_history, query, resp,
                   lock, clock, pc, call, procVars, batchVars, legacyVars, feed, horizon, stopAt, sleeps, histVars>>

\* the dict a caller of add_alert passes
CallerAlert == [city |-> "caller", aqi |-> 250, severity |-> "critical"]

\* the caller calls add_alert(alert) with its dict
R_AddAlert ==
    /\ pc[Reader] = "idle"
    /\ rleft > 0
    /\ rleft' = rleft - 1
    /\ Enter(Reader, "", CallerAlert, <<>>, "idle", "aa_append")
    /\ UNCHANGED <<storeVars, clock, procVars, batchVars, legacyVars, feed, horizon, stopAt, sleeps,
                   held, query, resp, histVars>>

\* line 44 appends the dict it was passed: the entries of the buffer that are
\* the caller's dict
RECURSIVE WithCallerAlertSet(_, _)
WithCallerAlertSet(buffer, value) ==
    IF buffer = <<>> THEN <<>>
    ELSE <<IF Head(buffer).city = "caller"
           THEN [Head(buffer) EXCEPT !.aqi = value] ELSE Head(buffer)>>
         \o WithCallerAlertSet(Tail(buffer), value)

\* alert["aqi"] = 999 on the dict the caller passed to add_alert
R_MutateAlert ==
    /\ pc[Reader] = "idle"
    /\ rleft > 0
    /\ \E i \in 1..Len(alerts_buffer) :
          alerts_buffer[i].city = "caller" /\ alerts_buffer[i].aqi # 999
    /\ rleft' = rleft - 1
    /\ alerts_buffer' = WithCallerAlertSet(alerts_buffer, 999)
    /\ UNCHANGED <<latest_readings, health_scores, risk_scores, anomaly_history, query, resp,
                   held, lock, clock, pc, call, procVars, batchVars, legacyVars, feed, horizon, stopAt, sleeps,
                   histVars>>

CallerChanges == R_MutateRecord \/ R_MutateAlert

InitAlias ==
    /\ InitStore
    /\ horizon = MaxTicks
    /\ wcalls = 0
    /\ rleft = MaxQueries
    /\ \E last \in {RaiseSample, NormalSample} :
         feed = [c \in Cities |-> IF c = "Delhi" THEN <<CriticalSample, NormalSample>>
                                  ELSE IF c = "Bangalore" THEN <<last, NormalSample>>
                                  ELSE <<NormalSample>>]

NextAlias ==
    \/ ProcessorStep
    \/ \E c \in {"Delhi", "Bangalore"} : R_GetCityReading(c)
    \/ \E c \in {"Delhi", "Bangalore"} : R_GetRecordOfAll(c)
    \/ R_AddAlert
    \/ AlertAppend(Reader)
    \/ AlertEvict(Reader)
    \/ CallerChanges

SpecAlias == InitAlias /\ [][NextAlias]_vars

\* C37: a record handed out by the store is isolated from the store's state:
\* when a caller changes a field of the record returned by get_city_reading,
\* or of a record inside the map returned by get_all_readings, or of the dict
\* it passed to add_alert, the store's readings and its alerts buffer stay as
\* they were, so the reads still return the values that were ingested.
C37_HandedOutRecordsAreIsolated ==
    [][CallerChanges => (StoreReads' = StoreReads /\ UNCHANGED storeVars)]_vars

-----------------------------------------------------------------------------
(* The legacy pipeline, pipeline.py *)

LegacyCalls == 103

\* what generate_environmental_data yields: the fields of one reading
LegacyData(city, aqi, co2, temperature, humidity, timestamp) ==
    [city |-> city, temperature |-> temperature, aqi |-> aqi, co2 |-> co2,
     humidity |-> humidity, timestamp |-> timestamp]

\* the reading the stream yields for the k-th call, stamped with the time it is made
StreamAt(k, now) ==
    LET s == stream[((k - 1) % Len(stream)) + 1]
    IN  LegacyData(s.city, s.aqi, s.co2, s.temperature, s.humidity, now)

\* a variant whose thresholds are inclusive
IsAnomalyInclusive(co2, aqi) == co2 >= CO2_THRESHOLD \/ aqi >= AQI_THRESHOLD

\* process_data, line 52
IsAnomaly(co2, aqi) == co2 > CO2_THRESHOLD \/ aqi > AQI_THRESHOLD

\* process_data, line 53: the thresholds times 1.2, compared in tenths
LegacySeverity(co2, aqi) ==
    IF 10 * co2 > 12 * CO2_THRESHOLD \/ 10 * aqi > 12 * AQI_THRESHOLD
    THEN "critical" ELSE "warning"

\* append and `if len(...) > 100: pop(0)`, lines 63-65 and 77-79
AppendedCapped(list, entry) ==
    LET longer == Append(list, entry)
    IN  IF Len(longer) > LegacyCapacity THEN Tail(longer) ELSE longer

\* process_data, lines 33-79
ProcessDataResult(state, data) ==
    LET city == DictGet(data, "city")
        co2 == DictGetOr(data, "co2", 0)
        aqi == DictGetOr(data, "aqi", 0)
        temperature == DictGetOr(data, "temperature", 0)
        humidity == DictGetOr(data, "humidity", 0)
        timestamp == data.timestamp
        latest == DictSet(state.latest_readings, city,
                          [city |-> city, temperature |-> temperature, aqi |-> aqi,
                           co2 |-> co2, humidity |-> humidity, timestamp |-> timestamp])
        alert == [city |-> city, co2 |-> co2, aqi |-> aqi, temperature |-> temperature,
                  humidity |-> humidity, timestamp |-> timestamp,
                  severity |-> LegacySeverity(co2, aqi)]
        stats == [city |-> city, avg_co2 |-> co2, max_co2 |-> co2, avg_aqi |-> aqi,
                  avg_temp |-> temperature, count |-> 1, timestamp |-> timestamp]
    IN  [latest_readings |-> latest,
         alerts |-> IF IsAnomaly(co2, aqi) THEN AppendedCapped(state.alerts, alert)
                    ELSE state.alerts,
         stats |-> AppendedCapped(state.stats, stats)]

\* run_pipeline, lines 23-25: one reading of the stream through process_data
L_ProcessData ==
    /\ processed < horizon
    /\ pipeline_state' = ProcessDataResult(pipeline_state, StreamAt(processed + 1, clock))
    /\ processed' = processed + 1
    /\ clock' = clock + 1
    /\ UNCHANGED <<storeVars, lock, pc, call, procVars, batchVars, stream, feed, horizon,
                   stopAt, sleeps, readerVars, histVars>>

\* streams of one to three readings, repeated: alerting ones, quiet ones, and
\* readings on the thresholds
LegacyStreams ==
    {<<LegacyData("Delhi", 250, 600, 30, 50, 0)>>,
     <<LegacyData("Pune", 100, 600, 25, 40, 0)>>,
     <<LegacyData("Delhi", 101, 600, 30, 50, 0), LegacyData("Pune", 60, 440, 25, 40, 0)>>,
     <<LegacyData("Mumbai", 100, 601, 30, 50, 0), LegacyData("Mumbai", 120, 720, 31, 50, 0),
       LegacyData("Delhi", 121, 500, 30, 50, 0)>>,
     <<LegacyData("Delhi", 100, 600, 30, 50, 0), LegacyData("Delhi", 330, 750, 44, 50, 0)>>}

InitLegacy ==
    /\ latest_readings = EmptyDict
    /\ alerts_buffer = <<>>
    /\ health_scores = EmptyDict
    /\ risk_scores = EmptyDict
    /\ anomaly_history = EmptyDict
    /\ lock = Free
    /\ clock = 1
    /\ pc = [t \in Threads |-> "idle"]
    /\ call = [t \in Threads |-> NoCall]
    /\ tick = 1
    /\ idx = 1
    /\ reading = EmptyDict
    /\ tickStart = 1
    /\ batch = NoBatch
    /\ wi = 1
    /\ wcalls = 0
    /\ feed = [c \in Cities |-> <<NormalSample>>]
    /\ horizon = LegacyCalls
    /\ stopAt = 0
    /\ sleeps = 0
    /\ held = NothingHeld
    /\ rleft = 0
    /\ query = NoQuery
    /\ resp = NoResponse
    /\ alertLog = <<>>
    /\ anomalyLog = EmptyDict
    /\ writeLog = [c \in AllCities |-> NoWrites]
    /\ pipeline_state = PipelineState
    /\ processed = 0
    /\ stream \in LegacyStreams

NextLegacy == L_ProcessData

SpecLegacy == InitLegacy /\ [][NextLegacy]_vars

\* the readings of the calls 1..n, in order
Arrived(n) == [k \in 1..n |-> StreamAt(k, k)]

\* the reading is one the specification expects an alert for
ClaimedAlerting(r) == r.co2 > 600 \/ r.aqi > 100

\* the alerts the specification expects of the readings, in arrival order
ClaimedAlerts(readings) == SelectSeq(readings, ClaimedAlerting)

\* two records agree on the fields of a reading
SameReading(a, b) ==
    /\ a.city = b.city /\ a.aqi = b.aqi /\ a.co2 = b.co2
    /\ a.temperature = b.temperature /\ a.timestamp = b.timestamp

\* a stats record is the one made of reading b
StatsOfReading(a, b) ==
    /\ a.city = b.city /\ a.avg_aqi = b.aqi /\ a.avg_co2 = b.co2 /\ a.max_co2 = b.co2
    /\ a.avg_temp = b.temperature /\ a.count = 1 /\ a.timestamp = b.timestamp

\* list holds the last 100 of the expected entries, in order
HoldsMostRecent(list, expected, Same(_, _)) ==
    /\ Len(list) = Min(Len(expected), 100)
    /\ \A i \in 1..Len(list) :
          Same(list[i], expected[Len(expected) - Len(list) + i])

\* C38: after any sequence of process_data calls, pipeline_state['alerts'] and
\* pipeline_state['stats'] each hold at most 100 entries, the most recent ones
\* in arrival order; an alert is appended iff co2 > 600 or aqi > 100, every
\* call appends one stats record, and latest_readings[city] is the last
\* processed reading of that city.
C38_LegacyPipelineState ==
    LET arrived == Arrived(processed) IN
    /\ Len(pipeline_state.alerts) <= 100
    /\ Len(pipeline_state.stats) <= 100
    /\ HoldsMostRecent(pipeline_state.alerts, ClaimedAlerts(arrived), SameReading)
    /\ HoldsMostRecent(pipeline_state.stats, arrived, StatsOfReading)
    /\ DOMAIN pipeline_state.latest_readings = {arrived[k].city : k \in 1..processed}
    /\ \A k \in 1..processed :
          (\A j \in (k + 1)..processed : arrived[j].city # arrived[k].city)
            => pipeline_state.latest_readings[arrived[k].city] = arrived[k]

\* more than 100 alerting readings have arrived: the oldest alerts are gone
C38_Witness ==
    /\ processed > 101
    /\ Len(pipeline_state.alerts) = 100
    /\ Len(pipeline_state.stats) = 100
    /\ pipeline_state.alerts[1].timestamp > 1
    /\ pipeline_state.stats[100].timestamp = processed

=============================================================================
